---- MODULE Spec2Model ----
(***************************************************************************)
(* The pin-ordered event aggregator of internal/events/aggregator.go:      *)
(* the poller reads pages of undispatched pins, processPins walks a page,  *)
(* processMessage decides readiness and attemptMessageDispatch confirms or *)
(* rejects the message; the batch state queues the store mutations that    *)
(* processWithBatchState runs as the finalize phase.                       *)
(***************************************************************************)
EXTENDS Integers, Sequences, FiniteSets, TLC

None == "none"

(***************************************************************************)
(* Bounds.                                                                 *)
(***************************************************************************)
\* config.EventAggregatorBatchSize: the page size of the poller and the
\* capacity of queuedRewinds (aggregator.go:66,75,86)
PageSize == 2

\* capacity of rewindBatches (aggregator.go:74)
RewindBatchesCap == 1

\* the runs of the pre-finalize callbacks on one page are counted up to this
MaxPreRuns == 2

(***************************************************************************)
(* The messages, batches and identities of the network.                    *)
(***************************************************************************)
Topics == {"t1", "t2"}

\* a masked pin H(group || topic || identity || nonce); a pin string that
\* does not parse as a hash is BadPin
MaskedPin(g, t, id, n) == [g |-> g, t |-> t, id |-> id, n |-> n]
BadPin == [g |-> None, t |-> None, id |-> None, n |-> 0]

\* the fields of fftypes.Message the aggregator reads
BaseMsg == [type |-> "broadcast", tag |-> None, key |-> "kA", author |-> "dA",
            topics |-> <<"t1">>, group |-> None, pins |-> <<>>,
            blob |-> None, hasData |-> TRUE, dataValid |-> TRUE,
            dataMissing |-> FALSE, cid |-> None]

PrivMsg == [BaseMsg EXCEPT !.type = "private", !.group = "G"]

Msg ==
  [m \in {"m1"}  |-> [BaseMsg EXCEPT !.blob = "b1"]] @@
  [m \in {"m2"}  |-> BaseMsg] @@
  [m \in {"m3"}  |-> [BaseMsg EXCEPT !.topics = <<"t1", "t2">>, !.cid = "c3"]] @@
  [m \in {"m4"}  |-> [BaseMsg EXCEPT !.topics = <<"t2">>]] @@
  [m \in {"m5"}  |-> [BaseMsg EXCEPT !.blob = "b1"]] @@
  [m \in {"m6"}  |-> [BaseMsg EXCEPT !.dataMissing = TRUE]] @@
  [m \in {"m7"}  |-> BaseMsg] @@
  [m \in {"m8"}  |-> [PrivMsg EXCEPT !.pins = <<MaskedPin("G", "t1", "dA", 0)>>]] @@
  [m \in {"m9"}  |-> [PrivMsg EXCEPT !.topics = <<"t1", "t2">>,
                                     !.pins = <<MaskedPin("G", "t1", "dA", 1),
                                                MaskedPin("G", "t2", "dA", 0)>>]] @@
  [m \in {"m10"} |-> [PrivMsg EXCEPT !.group = None,
                                     !.pins = <<MaskedPin("G", "t1", "dA", 0)>>]] @@
  [m \in {"m11"} |-> [PrivMsg EXCEPT !.topics = <<"t1", "t2">>,
                                     !.pins = <<MaskedPin("G", "t1", "dA", 0)>>]] @@
  [m \in {"m12"} |-> [PrivMsg EXCEPT !.pins = <<BadPin>>]] @@
  [m \in {"m13"} |-> [BaseMsg EXCEPT !.type = "transfer_broadcast"]] @@
  [m \in {"m14"} |-> [BaseMsg EXCEPT !.topics = <<"t2">>, !.dataValid = FALSE]] @@
  [m \in {"m15"} |-> [BaseMsg EXCEPT !.type = "definition", !.tag = "ff_define_datatype"]] @@
  [m \in {"m16"} |-> BaseMsg] @@
  [m \in {"m17"} |-> [BaseMsg EXCEPT !.key = None]] @@
  [m \in {"m18"} |-> [BaseMsg EXCEPT !.key = "kB", !.topics = <<"t2">>]] @@
  [m \in {"m19"} |-> [BaseMsg EXCEPT !.author = "dB"]] @@
  [m \in {"m20"} |-> [BaseMsg EXCEPT !.author = None, !.topics = <<"t2">>]] @@
  [m \in {"m21"} |-> [BaseMsg EXCEPT !.key = "kU", !.topics = <<"t1", "t2">>]] @@
  [m \in {"m22"} |-> [BaseMsg EXCEPT !.key = "kU", !.type = "definition",
                                     !.tag = "ff_identity_claim"]] @@
  [m \in {"m23"} |-> [PrivMsg EXCEPT !.key = "kU",
                                     !.pins = <<MaskedPin("G", "t1", "dA", 0)>>]] @@
  [m \in {"m24"} |-> [BaseMsg EXCEPT !.blob = "b1"]] @@
  [m \in {"m25"} |-> [BaseMsg EXCEPT !.blob = "b1", !.topics = <<"t2">>]] @@
  [m \in {"m26"} |-> [PrivMsg EXCEPT !.dataValid = FALSE, !.cid = "c26",
                                     !.pins = <<MaskedPin("G", "t1", "dA", 0)>>]] @@
  [m \in {"m27"} |-> [PrivMsg EXCEPT !.pins = <<MaskedPin("G", "t1", "dA", 1)>>]]

Messages == DOMAIN Msg

\* one manifest entry: fftypes.MessageManifestEntry (id, topic count)
Entry(m) == [id |-> m, topics |-> Len(Msg[m].topics)]
NoEntry == [id |-> None, topics |-> 0]

\* a persisted batch and the blockchain pin event that anchors it: the stored
\* hash, the manifest as persisted (kind "v1", "legacy", "legacyEmpty",
\* "badVersion" or "badJson"), the number of contexts of the pin event, and
\* whether the pins are masked
BaseBatch == [hash |-> "h", kind |-> "v1", entries |-> <<>>, contexts |-> 0,
              masked |-> FALSE, signer |-> "kA"]

Batch ==
  [b \in {"BA"} |-> [BaseBatch EXCEPT !.entries = <<Entry("m1"), Entry("m2")>>, !.contexts = 2]] @@
  [b \in {"BB"} |-> [BaseBatch EXCEPT !.entries = <<Entry("m3")>>, !.contexts = 2, !.kind = "legacy"]] @@
  [b \in {"BC"} |-> [BaseBatch EXCEPT !.entries = <<Entry("m4"), Entry("m5")>>, !.contexts = 2]] @@
  [b \in {"BE"} |-> [BaseBatch EXCEPT !.entries = <<Entry("m6"), Entry("m7")>>, !.contexts = 2]] @@
  [b \in {"BM"} |-> [BaseBatch EXCEPT !.entries = <<Entry("m8")>>, !.contexts = 1, !.masked = TRUE]] @@
  [b \in {"BN"} |-> [BaseBatch EXCEPT !.entries = <<Entry("m9")>>, !.contexts = 2, !.masked = TRUE]] @@
  [b \in {"BI"} |-> [BaseBatch EXCEPT !.entries = <<Entry("m10"), Entry("m11"), Entry("m12")>>,
                                      !.contexts = 5, !.masked = TRUE]] @@
  [b \in {"BT"} |-> [BaseBatch EXCEPT !.entries = <<Entry("m13"), Entry("m14")>>, !.contexts = 2]] @@
  [b \in {"BD"} |-> [BaseBatch EXCEPT !.entries = <<Entry("m15")>>, !.contexts = 1]] @@
  [b \in {"BX"} |-> [BaseBatch EXCEPT !.entries = <<Entry("m16")>>, !.contexts = 1, !.kind = "badVersion"]] @@
  [b \in {"BY"} |-> [BaseBatch EXCEPT !.entries = <<>>, !.contexts = 1, !.kind = "legacyEmpty"]] @@
  [b \in {"BS"} |-> [BaseBatch EXCEPT !.entries = <<Entry("m17"), Entry("m18")>>, !.contexts = 2]] @@
  [b \in {"BR"} |-> [BaseBatch EXCEPT !.entries = <<Entry("m19"), Entry("m20")>>, !.contexts = 2]] @@
  [b \in {"BU"} |-> [BaseBatch EXCEPT !.entries = <<Entry("m21")>>, !.contexts = 2, !.signer = "kU"]] @@
  [b \in {"BV"} |-> [BaseBatch EXCEPT !.entries = <<Entry("m22")>>, !.contexts = 1, !.signer = "kU"]] @@
  [b \in {"BP"} |-> [BaseBatch EXCEPT !.entries = <<Entry("m23")>>, !.contexts = 1,
                                      !.masked = TRUE, !.signer = "kU"]] @@
  [b \in {"BG"} |-> [BaseBatch EXCEPT !.entries = <<Entry("m24")>>, !.contexts = 1]] @@
  [b \in {"BH"} |-> [BaseBatch EXCEPT !.entries = <<Entry("m25")>>, !.contexts = 1]] @@
  [b \in {"BJ"} |-> [BaseBatch EXCEPT !.entries = <<Entry("m26"), Entry("m27")>>,
                                      !.contexts = 2, !.masked = TRUE]]

Batches == DOMAIN Batch

\* the batches for which a second pin event carrying another batch hash is
\* submitted to the ledger
Forgeable == {"BC"}
ForgedHash == "hx"

\* the sets of batches pinned in one behaviour
Worlds == { {"BA"}, {"BB", "BA"}, {"BC"}, {"BE"}, {"BM", "BN"}, {"BI"},
            {"BT"}, {"BD"}, {"BX", "BY"}, {"BS"}, {"BR"}, {"BU"}, {"BV"}, {"BP"},
            {"BG", "BH"}, {"BJ"} }

\* the batch a message was placed in (message.BatchID)
MsgsOf(b) == {Batch[b].entries[i].id : i \in 1..Len(Batch[b].entries)}
BatchOf(m) == CHOOSE b \in Batches : m \in MsgsOf(b)

\* the identity registered for a signing key (identity.FindIdentityForVerifier)
ResolveKey(k) == IF k = "kA" THEN "dA" ELSE None

\* the next-pin rows: one per (group, topic, identity)
NPKeys == {"G"} \X Topics \X {"dA"}

(***************************************************************************)
(* State.                                                                  *)
(***************************************************************************)
VARIABLES
  world,          \* the batches pinned in this behaviour
  pins,           \* the pins collection; a pin's sequence is its position
  pinned,         \* the pin events received: <<batch, batch hash>>
  batchStored,    \* the batches persisted in the store
  blobs,          \* hashes of the blobs present locally
  transfers,      \* the token transfers persisted, in store order
  msgState,       \* message -> "pending", "confirmed" or "rejected"
  nextPins,       \* the next-pin rows: (group, topic, identity) -> nonce
  events,         \* the events collection; an event's sequence is its position
  committedOffset,\* the persisted offset ff_aggregator
  pollingOffset,  \* the in-memory offset of the poller
  pc,             \* the poller: "poll" (about to read a page) or "dispatch"
  page,           \* the pin sequences of the page held by the poller
  rewindBatches,  \* channel of capacity 1
  queuedRewinds,  \* channel of capacity batchSize
  rewindSenders,  \* batch ids that tasks are waiting to send on rewindBatches
  delivered,      \* history: the pin sequences handed to the page handler
  consumed,       \* history: next-pin row -> the nonces consumed, in order
  last,           \* history: what the last run of the page handler did
  operations,     \* the operations collection of the sending node, in insert order
  attempts,       \* the number of dispatches and operation runs so far
  opLast,         \* history: what the last dispatch or operation run did
  tokenState,     \* the token transfers, balances and events persisted, with
                  \* the history of the last TokensTransferred callback
  subState,       \* the connections of the subscription manager and their
                  \* dispatchers, with the history of the last callback
  bpState,        \* one batch processor: its configuration, assembly queue,
                  \* the batch it is flushing and the batches it dispatched
  pinQuery,       \* a manifest and a pin index, with what
                  \* extractBatchMessagePin returned for them
  maskState,      \* the nonces of the outbound contexts, the pins of the
                  \* outbound private messages, and the last maskContexts call
  rewindCtx       \* the aggregator context and the position of
                  \* batchRewindListener in its loop

vars == <<world, pins, pinned, batchStored, blobs, transfers, msgState, nextPins,
          events, committedOffset, pollingOffset, pc, page, rewindBatches,
          queuedRewinds, rewindSenders, delivered, consumed, last,
          operations, attempts, opLast, tokenState, subState, bpState, pinQuery,
          maskState, rewindCtx>>

storeVars == <<pins, batchStored, blobs, transfers, msgState, nextPins, events>>
pollerVars == <<committedOffset, pollingOffset, pc, page>>
histVars == <<delivered, consumed, last>>
aggVars == <<world, pins, pinned, batchStored, blobs, transfers, msgState, nextPins,
             events, committedOffset, pollingOffset, pc, page, rewindBatches,
             queuedRewinds, rewindSenders, delivered, consumed, last>>
opVars == <<operations, attempts, opLast>>
\* what the tasks of the aggregator, and what the dispatchers of the sending
\* node, leave alone
nonAggVars == <<opVars, tokenState, subState, bpState, pinQuery, maskState, rewindCtx>>
nonOpVars == <<aggVars, tokenState, subState, bpState, pinQuery, maskState, rewindCtx>>
nonTokenVars == <<aggVars, opVars, subState, bpState, pinQuery, maskState, rewindCtx>>
nonSubVars == <<aggVars, opVars, tokenState, bpState, pinQuery, maskState, rewindCtx>>
nonBatchVars == <<aggVars, opVars, tokenState, subState, pinQuery, maskState, rewindCtx>>
nonQueryVars == <<aggVars, opVars, tokenState, subState, bpState, maskState, rewindCtx>>
nonMaskVars == <<aggVars, opVars, tokenState, subState, bpState, pinQuery, rewindCtx>>
nonCtxVars == <<opVars, tokenState, subState, bpState, pinQuery, maskState>>

\* last: the page, the store failure injected, the definition handler's
\* action and custom correlator, the error the handler returned ("none", or "pin", "pre", "fin" for
\* the phase that failed), the committed offset and the number of events
\* before the run, the pins the loop visited, the (pin, message) pairs handed
\* to processMessage, those dispatched and those not, the next pins advanced
\* by the loop, whether a pre-finalize callback was registered, the steps
\* of processWithBatchState in order, and the number of times the
\* pre-finalize callbacks ran without error since the poller read the page
NoRun == [page |-> <<>>, fail |-> "none", def |-> "confirm", correlator |-> None,
          err |-> "none",
          before |-> 0, evBefore |-> 0, visited |-> {},
          processed |-> <<>>, disp |-> <<>>, undisp |-> <<>>, advanced |-> <<>>,
          pre |-> FALSE, steps |-> <<>>, preRuns |-> 0]

(***************************************************************************)
(* Helpers on sequences.                                                   *)
(***************************************************************************)
Range(s) == {s[i] : i \in 1..Len(s)}

\* F applied to the value of x, x being evaluated once
Strict(x, F(_)) == CHOOSE v \in {F(y) : y \in {x}} : TRUE

Take(s, n) == SubSeq(s, 1, IF Len(s) < n THEN Len(s) ELSE n)

\* the elements of a set of integers in ascending order
SetToSeq(S) ==
  [i \in 1..Cardinality(S) |-> CHOOSE x \in S : Cardinality({y \in S : y < x}) = i - 1]

(***************************************************************************)
(* Manifests.                                                              *)
(***************************************************************************)
RECURSIVE extractTopicLoop(_, _, _, _, _)
\* the inner loop of extractBatchMessagePin over the topics of one entry
extractTopicLoop(batchMsg, base, i, requiredIndex, acc) ==
  IF i >= batchMsg.topics THEN acc
  ELSE Strict([totalBatchPins |-> acc.totalBatchPins + 1,
               msgEntry |-> IF acc.totalBatchPins = requiredIndex THEN batchMsg ELSE acc.msgEntry,
               msgBaseIndex |-> IF acc.totalBatchPins = requiredIndex THEN base ELSE acc.msgBaseIndex],
              LAMBDA next : extractTopicLoop(batchMsg, base, i + 1, requiredIndex, next))

RECURSIVE extractMsgLoop(_, _, _, _)
extractMsgLoop(messages, j, requiredIndex, acc) ==
  IF j > Len(messages) THEN acc
  ELSE Strict(extractTopicLoop(messages[j], acc.totalBatchPins, 0, requiredIndex, acc),
              LAMBDA next : extractMsgLoop(messages, j + 1, requiredIndex, next))

\* the pin index taken as counted from one
extractBatchMessagePinFromOne(manifest, requiredIndex) ==
  extractMsgLoop(manifest, 1, requiredIndex - 1,
                 [totalBatchPins |-> 0, msgEntry |-> NoEntry, msgBaseIndex |-> 0])

\* the manifest entry that owns pin index requiredIndex, its base index, and
\* the number of pins of the batch
extractBatchMessagePin(manifest, requiredIndex) ==
  extractMsgLoop(manifest, 1, requiredIndex,
                 [totalBatchPins |-> 0, msgEntry |-> NoEntry, msgBaseIndex |-> 0])

\* a legacy persisted batch holds the full payload; no messages: no manifest
migrateManifest(b) ==
  IF Batch[b].kind = "legacyEmpty" THEN None ELSE b

\* None when the manifest cannot be extracted, else the batch whose manifest
\* (Batch[b].entries) was extracted
extractManifest(b) ==
  CASE Batch[b].kind = "badJson" -> None
    [] Batch[b].kind \in {"legacy", "legacyEmpty"} -> migrateManifest(b)
    [] Batch[b].kind = "v1" -> b
    [] OTHER -> None

\* the batch for a pin, None when it is not stored, its hash is not the pin's,
\* or its manifest cannot be extracted.  The ccache in front of the store is
\* keyed by (batch id, pin batch hash) and filled only after these checks, and
\* batches are immutable, so a hit returns what the store returns.
GetBatchForPin(pin) ==
  IF pin.batch \notin batchStored THEN None
  ELSE IF Batch[pin.batch].hash # pin.batchHash THEN None
  ELSE IF extractManifest(pin.batch) = None THEN None
  ELSE pin.batch

(***************************************************************************)
(* Batch state: the per-page accumulator handed to processPins.            *)
(***************************************************************************)
NoKey == <<None, None, None>>

\* newBatchState: nothing blocked, the next pins as stored, nothing queued
newBatchState ==
  [batch |-> None, dup |-> {}, blocks |-> [t \in Topics |-> 0], np |-> nextPins,
   dispatched |-> <<>>, finalize |-> <<>>, preFinalize |-> FALSE, err |-> FALSE,
   visited |-> {}, processed |-> <<>>, disp |-> <<>>, undisp |-> <<>>,
   advanced |-> <<>>]

\* an unmasked context is ready iff no earlier message of this page blocks it
CheckUnmaskedContextReady(state, msgContext) == state.blocks[msgContext] = 0

\* contextBlocks keeps the earliest blocking pin sequence of a context
SetContextBlockedBy(state, msgContext, sequence) ==
  IF state.blocks[msgContext] # 0 THEN state
  ELSE [state EXCEPT !.blocks[msgContext] = sequence]

\* the next-pin row of (group, topic, author) when the message's masked pin is
\* the expected next pin of that row, NoKey when it is not
CheckMaskedContextReady(state, msg, topic, msgContext) ==
  LET key == <<msg.group, topic, msg.author>>
  IN IF key \in NPKeys /\ msgContext = MaskedPin(key[1], key[2], key[3], state.np[key])
     THEN key ELSE NoKey

\* nonce + 1, the stored hash being recomputed from the nonce
IncrementNextPin(state, key) ==
  [state EXCEPT !.np[key] = @ + 1,
                 !.advanced = Append(@, [key |-> key, nonce |-> state.np[key]])]

MarkMessageDispatched(state, batchID, m, msgBaseIndex, newState) ==
  [state EXCEPT !.dispatched = Append(@,
     [batch |-> batchID, msg |-> m, firstPinIndex |-> msgBaseIndex,
      topicCount |-> Len(Msg[m].topics), newState |-> newState])]

(***************************************************************************)
(* Dispatch of one message.                                                *)
(***************************************************************************)
\* the results of definitions.HandleDefinitionBroadcast: the action, the
\* custom correlator, whether a pre-finalize callback was registered, and the
\* error returned with the result (a handler answers retry with the store
\* error that made it give up)
DefResults ==
  { [action |-> "confirm", correlator |-> None, preFinalize |-> FALSE, err |-> FALSE],
    [action |-> "confirm", correlator |-> "cc", preFinalize |-> TRUE, err |-> FALSE],
    [action |-> "reject", correlator |-> None, preFinalize |-> FALSE, err |-> FALSE],
    [action |-> "wait", correlator |-> None, preFinalize |-> FALSE, err |-> FALSE],
    [action |-> "retry", correlator |-> None, preFinalize |-> FALSE, err |-> TRUE] }

IdentityClaimTags == {"ff_identity_claim", "ff_define_node", "ff_define_organization"}

\* the check of the message key against the pin signer left out
checkOnchainConsistencyNoKey(msg, pin) ==
  LET resolvedAuthor == ResolveKey(pin.signer)
  IN IF resolvedAuthor = None
     THEN IF msg.type = "definition" /\ msg.tag \in IdentityClaimTags THEN TRUE
          ELSE IF msg.type # "private" THEN FALSE
          ELSE TRUE
     ELSE IF msg.author = None \/ resolvedAuthor # msg.author THEN FALSE
          ELSE TRUE

\* TRUE iff the pin signer is the message key and resolves to the author
checkOnchainConsistency(msg, pin) ==
  IF msg.key = None \/ msg.key # pin.signer THEN FALSE
  ELSE LET resolvedAuthor == ResolveKey(pin.signer)
       IN IF resolvedAuthor = None
          THEN IF msg.type = "definition" /\ msg.tag \in IdentityClaimTags THEN TRUE
               ELSE IF msg.type # "private" THEN FALSE
               ELSE TRUE
          ELSE IF msg.author = None \/ resolvedAuthor # msg.author THEN FALSE
               ELSE TRUE

\* TRUE iff every blob the data refers to is in the local blob store
resolveBlobs(msg) == msg.blob = None \/ msg.blob \in blobs

\* the token transfers of a message, in store order
TransfersOf(m) == SelectSeq(transfers, LAMBDA t : t.msg = m)

NotDispatched == [newState |-> None, valid |-> FALSE, err |-> FALSE,
                  events |-> <<>>, preFinalize |-> FALSE]

\* a finalize closure that inserts the event of the first topic only
FinalizeEventsFirstTopic(m, eventType, customCorrelator) ==
  [i \in 1..1 |->
     [type |-> eventType, ref |-> m, topic |-> Msg[m].topics[i],
      correlator |-> IF customCorrelator # None THEN customCorrelator ELSE Msg[m].cid]]

\* the events of one finalize closure: one per topic, in topic order
FinalizeEvents(m, eventType, customCorrelator) ==
  [i \in 1..Len(Msg[m].topics) |->
     [type |-> eventType, ref |-> m, topic |-> Msg[m].topics[i],
      correlator |-> IF customCorrelator # None THEN customCorrelator ELSE Msg[m].cid]]

\* the handler's retry taken as a wait: no error is returned
attemptMessageDispatchRetryAsWait(m, pin, def) ==
  LET msg == Msg[m]
      isDef == msg.type = "definition"
      valid == CASE isDef -> def.action = "confirm"
                 [] msg.type = "groupinit" -> TRUE
                 [] msg.hasData -> msg.dataValid
                 [] OTHER -> TRUE
      eventType == IF valid THEN "message_confirmed" ELSE "message_rejected"
  IN IF ~checkOnchainConsistency(msg, pin) THEN NotDispatched
     ELSE IF ~resolveBlobs(msg) THEN NotDispatched
     ELSE IF msg.type \in {"transfer_broadcast", "transfer_private"}
             /\ Len(TransfersOf(m)) = 0 THEN NotDispatched
     ELSE IF msg.type \in {"transfer_broadcast", "transfer_private"}
             /\ ~TransfersOf(m)[1].hashOk THEN NotDispatched
     ELSE IF isDef /\ def.action = "retry" THEN NotDispatched
     ELSE IF isDef /\ def.action = "wait" THEN NotDispatched
     ELSE [newState |-> IF valid THEN "confirmed" ELSE "rejected",
           valid |-> TRUE, err |-> FALSE,
           events |-> FinalizeEvents(m, eventType, IF isDef THEN def.correlator ELSE None),
           preFinalize |-> isDef /\ def.preFinalize]

\* attemptMessageDispatch: the checks, then the validation of the message;
\* for a definition the handler's action decides
attemptMessageDispatch(m, pin, def) ==
  LET msg == Msg[m]
      isDef == msg.type = "definition"
      valid == CASE isDef -> def.action = "confirm"
                 [] msg.type = "groupinit" -> TRUE
                 [] msg.hasData -> msg.dataValid
                 [] OTHER -> TRUE
      eventType == IF valid THEN "message_confirmed" ELSE "message_rejected"
  IN IF ~checkOnchainConsistency(msg, pin) THEN NotDispatched
     ELSE IF ~resolveBlobs(msg) THEN NotDispatched
     ELSE IF msg.type \in {"transfer_broadcast", "transfer_private"}
             /\ Len(TransfersOf(m)) = 0 THEN NotDispatched
     ELSE IF msg.type \in {"transfer_broadcast", "transfer_private"}
             /\ ~TransfersOf(m)[1].hashOk THEN NotDispatched
     ELSE IF isDef /\ def.action = "retry" THEN [NotDispatched EXCEPT !.err = def.err]
     ELSE IF isDef /\ def.action = "wait" THEN NotDispatched
     ELSE [newState |-> IF valid THEN "confirmed" ELSE "rejected",
           valid |-> TRUE, err |-> FALSE,
           events |-> FinalizeEvents(m, eventType, IF isDef THEN def.correlator ELSE None),
           preFinalize |-> isDef /\ def.preFinalize]

RECURSIVE IncrementAll(_, _, _)
IncrementAll(state, nextPinKeys, i) ==
  IF i > Len(nextPinKeys) THEN state
  ELSE Strict(IncrementNextPin(state, nextPinKeys[i]),
              LAMBDA next : IncrementAll(next, nextPinKeys, i + 1))

RECURSIVE BlockAll(_, _, _, _)
BlockAll(state, unmaskedContexts, i, sequence) ==
  IF i > Len(unmaskedContexts) THEN state
  ELSE Strict(SetContextBlockedBy(state, unmaskedContexts[i], sequence),
              LAMBDA next : BlockAll(next, unmaskedContexts, i + 1, sequence))

\* the finalize closure of a message queued ahead of the earlier ones
dispatchOrBlockPrepend(pin, sequence, batchID, msgBaseIndex, m, state, def, nextPinKeys, unmaskedContexts) ==
  Strict(attemptMessageDispatch(m, pin, def), LAMBDA r :
    LET rec == [pin |-> sequence, msg |-> m]
    IN IF r.err THEN [state EXCEPT !.err = TRUE]
       ELSE IF r.valid
       THEN LET s1 == IncrementAll(state, nextPinKeys, 1)
                s2 == MarkMessageDispatched(s1, batchID, m, msgBaseIndex, r.newState)
            IN [s2 EXCEPT !.finalize = r.events \o @,
                          !.preFinalize = @ \/ r.preFinalize,
                          !.disp = Append(@, rec)]
       ELSE [BlockAll(state, unmaskedContexts, 1, sequence) EXCEPT !.undisp = Append(@, rec)])

\* processMessage from the dispatch attempt on: the message is ready
dispatchOrBlock(pin, sequence, batchID, msgBaseIndex, m, state, def, nextPinKeys, unmaskedContexts) ==
  Strict(attemptMessageDispatch(m, pin, def), LAMBDA r :
    LET rec == [pin |-> sequence, msg |-> m]
    IN IF r.err THEN [state EXCEPT !.err = TRUE]
       ELSE IF r.valid
       THEN LET s1 == IncrementAll(state, nextPinKeys, 1)
                s2 == MarkMessageDispatched(s1, batchID, m, msgBaseIndex, r.newState)
            IN [s2 EXCEPT !.finalize = @ \o r.events,
                          !.preFinalize = @ \/ r.preFinalize,
                          !.disp = Append(@, rec)]
       ELSE [BlockAll(state, unmaskedContexts, 1, sequence) EXCEPT !.undisp = Append(@, rec)])

\* dispatches a masked message as soon as one of its pins is the next pin
processMessageAnyPin(pin, sequence, batchID, msgBaseIndex, m, state0, def, dbError) ==
  Strict([state0 EXCEPT !.processed = Append(@, [pin |-> sequence, msg |-> m])], LAMBDA state :
    LET msg == Msg[m]
        rec == [pin |-> sequence, msg |-> m]
        notReady == [state EXCEPT !.undisp = Append(@, rec)]
        nextPinKeys == [i \in 1..Len(msg.pins) |->
                          CheckMaskedContextReady(state, msg, msg.topics[i], msg.pins[i])]
    IN IF dbError THEN [state0 EXCEPT !.err = TRUE]
       ELSE IF msg.dataMissing THEN notReady
       ELSE IF pin.masked
       THEN IF msg.group = None \/ Len(msg.pins) = 0 \/ Len(msg.topics) # Len(msg.pins)
            THEN notReady
            ELSE IF \A i \in 1..Len(msg.pins) : msg.pins[i] = BadPin \/ nextPinKeys[i] = NoKey
            THEN notReady
            ELSE dispatchOrBlock(pin, sequence, batchID, msgBaseIndex, m, state, def,
                                 SelectSeq(nextPinKeys, LAMBDA key : key # NoKey), <<>>)
       ELSE IF \E i \in 1..Len(msg.topics) : ~CheckUnmaskedContextReady(state, msg.topics[i])
            THEN notReady
            ELSE dispatchOrBlock(pin, sequence, batchID, msgBaseIndex, m, state, def, <<>>, msg.topics))

\* processMessage: the readiness checks, then the dispatch attempt
processMessage(pin, sequence, batchID, msgBaseIndex, m, state0, def, dbError) ==
  Strict([state0 EXCEPT !.processed = Append(@, [pin |-> sequence, msg |-> m])], LAMBDA state :
    LET msg == Msg[m]
        rec == [pin |-> sequence, msg |-> m]
        notReady == [state EXCEPT !.undisp = Append(@, rec)]
        nextPinKeys == [i \in 1..Len(msg.pins) |->
                          CheckMaskedContextReady(state, msg, msg.topics[i], msg.pins[i])]
    IN IF dbError THEN [state0 EXCEPT !.err = TRUE]
       ELSE IF msg.dataMissing THEN notReady
       ELSE IF pin.masked
       THEN IF msg.group = None \/ Len(msg.pins) = 0 \/ Len(msg.topics) # Len(msg.pins)
            THEN notReady
            ELSE IF \E i \in 1..Len(msg.pins) : msg.pins[i] = BadPin \/ nextPinKeys[i] = NoKey
            THEN notReady
            ELSE dispatchOrBlock(pin, sequence, batchID, msgBaseIndex, m, state, def,
                                 nextPinKeys, <<>>)
       ELSE IF \E i \in 1..Len(msg.topics) : ~CheckUnmaskedContextReady(state, msg.topics[i])
            THEN notReady
            ELSE dispatchOrBlock(pin, sequence, batchID, msgBaseIndex, m, state, def, <<>>, msg.topics))

(***************************************************************************)
(* One page.                                                               *)
(***************************************************************************)
\* an unavailable batch returned as an error instead of skipping the pin
processPinFailOnMissing(sequence, k, state, def, fail) ==
  LET pin == pins[sequence]
      dbError == fail.kind = "pin" /\ fail.at = k
      lookup == state.batch = None \/ state.batch # pin.batch
  IN IF lookup /\ dbError THEN [state EXCEPT !.err = TRUE]
     ELSE Strict(IF lookup THEN GetBatchForPin(pin) ELSE state.batch, LAMBDA batch :
       LET s1 == [state EXCEPT !.batch = batch, !.visited = @ \cup {sequence}]
       IN IF batch = None THEN [state EXCEPT !.err = TRUE]
          ELSE Strict(extractBatchMessagePin(Batch[batch].entries, pin.index), LAMBDA ex :
             IF ex.msgEntry = NoEntry THEN s1
             ELSE IF ex.msgEntry.id \in state.dup THEN s1
             ELSE processMessage(pin, sequence, batch, ex.msgBaseIndex, ex.msgEntry.id,
                                 [s1 EXCEPT !.dup = @ \cup {ex.msgEntry.id}], def,
                                 dbError /\ ~lookup)))

\* the loop without dupMsgCheck
processPinNoDupCheck(sequence, k, state, def, fail) ==
  LET pin == pins[sequence]
      dbError == fail.kind = "pin" /\ fail.at = k
      lookup == state.batch = None \/ state.batch # pin.batch
  IN IF lookup /\ dbError THEN [state EXCEPT !.err = TRUE]
     ELSE Strict(IF lookup THEN GetBatchForPin(pin) ELSE state.batch, LAMBDA batch :
       LET s1 == [state EXCEPT !.batch = batch, !.visited = @ \cup {sequence}]
       IN IF batch = None THEN s1
          ELSE Strict(extractBatchMessagePin(Batch[batch].entries, pin.index), LAMBDA ex :
             IF ex.msgEntry = NoEntry THEN s1
             ELSE processMessage(pin, sequence, batch, ex.msgBaseIndex, ex.msgEntry.id,
                                 [s1 EXCEPT !.dup = @ \cup {ex.msgEntry.id}], def,
                                 dbError /\ ~lookup)))

\* one iteration of the loop of processPins, for the k-th pin of the page;
\* fail.kind = "pin" /\ fail.at = k makes the first store call it reaches fail
processPin(sequence, k, state, def, fail) ==
  LET pin == pins[sequence]
      dbError == fail.kind = "pin" /\ fail.at = k
      lookup == state.batch = None \/ state.batch # pin.batch
  IN IF lookup /\ dbError THEN [state EXCEPT !.err = TRUE]
     ELSE Strict(IF lookup THEN GetBatchForPin(pin) ELSE state.batch, LAMBDA batch :
       LET s1 == [state EXCEPT !.batch = batch, !.visited = @ \cup {sequence}]
       IN IF batch = None THEN s1
          ELSE Strict(extractBatchMessagePin(Batch[batch].entries, pin.index), LAMBDA ex :
             IF ex.msgEntry = NoEntry THEN s1
             ELSE IF ex.msgEntry.id \in state.dup THEN s1
             ELSE processMessage(pin, sequence, batch, ex.msgBaseIndex, ex.msgEntry.id,
                                 [s1 EXCEPT !.dup = @ \cup {ex.msgEntry.id}], def,
                                 dbError /\ ~lookup)))

RECURSIVE processPinsLoop(_, _, _, _, _)
processPinsLoop(pg, k, state, def, fail) ==
  IF k > Len(pg) \/ state.err THEN state
  ELSE Strict(processPin(pg[k], k, state, def, fail),
              LAMBDA next : processPinsLoop(pg, k + 1, next, def, fail))

\* the batch state after the loop of processPins over the page
processPins(pg, def, fail) == processPinsLoop(pg, 1, newBatchState, def, fail)

(***************************************************************************)
(* Initial state: an empty store, the poller at the oldest pin.            *)
(***************************************************************************)
\* opLast: the dispatcher that ran ("pinned", "unpinned", or "run" for a
\* call of RunOperation on a stored operation), the batch, the error it
\* returned, and for each call of RunOperation in order what the handler
\* returned, the options, the ResolveOperation call made, whether the
\* operation row existed before the dispatch, the row before and after; for
\* a dispatch also the prepared batch-send operations it ran
NoDispatch == [kind |-> "none", batch |-> None, err |-> None, runs |-> <<>>]

\* the messages token transfers refer to: s1 waits on the sending node for
\* its transfer, r1 was received in batch BT and waits for its transfer
TokenMsgs ==
  [s1 |-> [state |-> "staged", batch |-> "BC"], r1 |-> [state |-> "pending", batch |-> "BT"]]

\* the token store before any callback of the token connector
TokenStart ==
  [transfers |-> <<>>, balances |-> [a \in {"0x1", "0x2"} |-> 0], events |-> <<>>,
   deliveries |-> 0, messages |-> [m \in DOMAIN TokenMsgs |-> TokenMsgs[m].state],
   last |-> [transfer |-> None, existing |-> FALSE, calls |-> <<>>,
             transfers |-> <<>>, balances |-> [a \in {"0x1", "0x2"} |-> 0],
             events |-> <<>>]]

\* the connection ids of the transports, and no connection
ConnIDs == {"conn1", "conn2"}
NoConn == [transport |-> "", dispatchers |-> {}]

\* the subscription manager after start(), with its durable subscriptions
\* loaded and no connection
SubStart ==
  [connections |-> [c \in ConnIDs |-> NoConn], running |-> {}, ephemerals |-> 0,
   last |-> [op |-> "none", conn |-> "", transport |-> "", err |-> "",
             connections |-> [c \in ConnIDs |-> NoConn], running |-> {}]]

\* the messages submitted to the batch processor in one behaviour, named by
\* their sequence
MaxWork == 3
Work == 1..MaxWork

\* no batch is being flushed
NoBatch == [msgs |-> <<>>, trigger |-> "", work |-> 0]

\* newTestBatchProcessor: the configuration of the processor under test
TestConf ==
  [BatchMaxSize |-> 10, BatchMaxBytes |-> 1024, txType |-> "batch_pin", failing |-> "none"]

\* newBatchProcessor: a processor with an empty assembly queue
BatchStart(conf) ==
  [conf |-> conf, pc |-> "assembly", cancelled |-> FALSE, arrivals |-> <<>>,
   assemblyQueue |-> <<>>, flushing |-> NoBatch, attempts |-> 0, dispatched |-> <<>>,
   msgState |-> [w \in Work |-> "ready"], events |-> <<>>]

\* the node before any event, but for its batch processor
NodeInit ==
  /\ world \in Worlds
  /\ pins = <<>>
  /\ pinned = {}
  /\ batchStored = {}
  /\ blobs = {}
  /\ transfers = <<>>
  /\ msgState = [m \in Messages |-> "pending"]
  /\ nextPins = [key \in NPKeys |-> 0]
  /\ events = <<>>
  /\ committedOffset = 0
  /\ pollingOffset = 0
  /\ pc = "poll"
  /\ page = <<>>
  /\ rewindBatches = <<>>
  /\ queuedRewinds = <<>>
  /\ rewindSenders = {}
  /\ delivered = {}
  /\ consumed = [key \in NPKeys |-> <<>>]
  /\ last = NoRun
  /\ operations = <<>>
  /\ attempts = 0
  /\ opLast = NoDispatch
  /\ tokenState = TokenStart
  /\ subState = SubStart

\* the context is live and batchRewindListener waits in its select
CtxStart == [cancelled |-> FALSE, listener |-> "select", uuid |-> None]

\* the outbound private messages of group G with their topics, and the
\* contexts they are sent on
MaskMsgs ==
  [p1 |-> [topics |-> <<"t1">>], p2 |-> [topics |-> <<"t1", "t2">>],
   p3 |-> [topics |-> <<"t2">>]]
MaskTopics == {"t1", "t2"}

\* no call of maskContexts
NoMask ==
  [msgs |-> <<>>, err |-> None, upserts |-> 0, updates |-> 0,
   pinsBefore |-> [m \in DOMAIN MaskMsgs |-> <<>>],
   storedBefore |-> [m \in DOMAIN MaskMsgs |-> <<>>],
   noncesBefore |-> [t \in MaskTopics |-> 0]]

\* no nonce allocated, no message masked; pins are those of the message
\* objects the processor holds, stored those written by UpdateMessage, and
\* allocated the history of the nonces UpsertNonceNext gave out
MaskStart ==
  [nonces |-> [t \in MaskTopics |-> 0], pins |-> [m \in DOMAIN MaskMsgs |-> <<>>],
   stored |-> [m \in DOMAIN MaskMsgs |-> <<>>], allocated |-> <<>>, calls |-> 0,
   last |-> NoMask]

\* a call of extractBatchMessagePin that has not returned
PinQueryStart(manifest, requiredIndex) ==
  [manifest |-> manifest, requiredIndex |-> requiredIndex, called |-> FALSE,
   result |-> [totalBatchPins |-> 0, msgEntry |-> NoEntry, msgBaseIndex |-> 0]]

Init ==
  /\ NodeInit
  /\ bpState = BatchStart(TestConf)
  /\ pinQuery = PinQueryStart(<<>>, 0)
  /\ maskState = MaskStart
  /\ rewindCtx = CtxStart

WorldMessages == UNION {MsgsOf(b) : b \in world}

(***************************************************************************)
(* The environment: the ledger, the data exchange and the token connector. *)
(***************************************************************************)
\* the pins of one pin event, in context order
EventPins(b, batchHash) ==
  [i \in 1..Batch[b].contexts |->
     [batch |-> b, batchHash |-> batchHash, index |-> i - 1,
      masked |-> Batch[b].masked, signer |-> Batch[b].signer, dispatched |-> FALSE]]

\* a batch pin event is sequenced: its pins are appended to the pins
\* collection.  UpsertPin inserts a pin once per batch+hash+index, so an event
\* is inserted once; a forged event for a batch carries another batch hash
\* (and other context hashes) than the event of the batch's sender.
BatchPinComplete(b, batchHash) ==
  /\ b \in world
  /\ batchHash = Batch[b].hash \/ (b \in Forgeable /\ batchHash = ForgedHash)
  /\ <<b, batchHash>> \notin pinned
  /\ pinned' = pinned \cup {<<b, batchHash>>}
  /\ pins' = pins \o EventPins(b, batchHash)
  /\ UNCHANGED <<world, batchStored, blobs, transfers, msgState, nextPins, events,
                 pollerVars, rewindBatches, queuedRewinds, rewindSenders, histVars>>
  /\ UNCHANGED nonAggVars

\* a batch arrives off-chain and is persisted; the receiver then asks for a rewind
BatchArrives(b) ==
  /\ b \in world \ batchStored
  /\ batchStored' = batchStored \cup {b}
  /\ rewindSenders' = rewindSenders \cup {b}
  /\ UNCHANGED <<world, pins, pinned, blobs, transfers, msgState, nextPins, events,
                 pollerVars, rewindBatches, queuedRewinds, histVars>>
  /\ UNCHANGED nonAggVars

\* the data records in the store that refer to a blob (one record per message)
DataRefsWithBlob(blobHash) ==
  {m \in Messages : BatchOf(m) \in batchStored /\ ~Msg[m].dataMissing /\ Msg[m].blob = blobHash}

\* the batch ids rewindForBlobArrival sends when lastData is the data record
\* its loop visits last: messages is assigned, not appended to, per record
rewindForBlobArrival(blobHash, lastData) ==
  LET messages == IF lastData = None THEN {}
                  ELSE {m \in {lastData} : msgState[m] = "pending"}
  IN {BatchOf(m) : m \in messages}

\* a blob arrives in the local blob store
BlobReceived(blobHash) ==
  /\ blobHash \notin blobs
  /\ \E m \in WorldMessages : Msg[m].blob = blobHash
  /\ blobs' = blobs \cup {blobHash}
  /\ \E lastData \in (IF DataRefsWithBlob(blobHash) = {} THEN {None} ELSE DataRefsWithBlob(blobHash)) :
       rewindSenders' = rewindSenders \cup rewindForBlobArrival(blobHash, lastData)
  /\ UNCHANGED <<world, pins, pinned, batchStored, transfers, msgState, nextPins, events,
                 pollerVars, rewindBatches, queuedRewinds, histVars>>
  /\ UNCHANGED nonAggVars

\* a token transfer that refers to a message is persisted
TokensTransferred(m, hashOk) ==
  /\ m \in WorldMessages
  /\ Msg[m].type \in {"transfer_broadcast", "transfer_private"}
  /\ [msg |-> m, hashOk |-> hashOk] \notin Range(transfers)
  /\ transfers' = Append(transfers, [msg |-> m, hashOk |-> hashOk])
  /\ rewindSenders' = rewindSenders \cup {BatchOf(m)}
  /\ UNCHANGED <<world, pins, pinned, batchStored, blobs, msgState, nextPins, events,
                 pollerVars, rewindBatches, queuedRewinds, histVars>>
  /\ UNCHANGED nonAggVars

\* a blocked sender gets its batch id onto rewindBatches
SendRewind(b) ==
  /\ b \in rewindSenders
  /\ Len(rewindBatches) < RewindBatchesCap
  /\ rewindBatches' = Append(rewindBatches, b)
  /\ rewindSenders' = rewindSenders \ {b}
  /\ UNCHANGED <<world, pinned, storeVars, pollerVars, queuedRewinds, histVars>>
  /\ UNCHANGED nonAggVars

(***************************************************************************)
(* The aggregator tasks.                                                   *)
(***************************************************************************)
\* the batch id taken from rewindBatches is dropped
batchRewindListenerDrop ==
  /\ rewindBatches # <<>>
  /\ rewindBatches' = Tail(rewindBatches)
  /\ UNCHANGED <<world, pinned, storeVars, pollerVars, queuedRewinds, rewindSenders, histVars>>
  /\ UNCHANGED nonAggVars

\* one iteration of batchRewindListener: hop to queuedRewinds, then shoulder tap
batchRewindListener ==
  /\ rewindBatches # <<>>
  /\ Len(queuedRewinds) < PageSize
  /\ queuedRewinds' = Append(queuedRewinds, Head(rewindBatches))
  /\ rewindBatches' = Tail(rewindBatches)
  /\ UNCHANGED <<world, pinned, storeVars, pollerVars, rewindSenders, histVars>>
  /\ UNCHANGED nonAggVars

\* the queued batch ids dropped without a rewind
rewindOffchainBatchesNone == [rewind |-> FALSE, offset |-> 0]

\* the rewind goes to just before the newest undispatched pin
rewindOffchainBatchesNewest ==
  LET batchIDs == Range(queuedRewinds)
      sequences == {i \in 1..Len(pins) : pins[i].batch \in batchIDs /\ ~pins[i].dispatched}
  IN IF batchIDs # {} /\ sequences # {}
     THEN [rewind |-> TRUE, offset |-> SetToSeq(sequences)[Cardinality(sequences)] - 1]
     ELSE [rewind |-> FALSE, offset |-> 0]

\* drains queuedRewinds; rewinds to just before the oldest undispatched pin of
\* the drained batches
rewindOffchainBatches ==
  LET batchIDs == Range(queuedRewinds)
      sequences == {i \in 1..Len(pins) : pins[i].batch \in batchIDs /\ ~pins[i].dispatched}
  IN IF batchIDs # {} /\ sequences # {}
     THEN [rewind |-> TRUE, offset |-> SetToSeq(sequences)[1] - 1]
     ELSE [rewind |-> FALSE, offset |-> 0]

\* the poller's query: undispatched pins after the offset, oldest first, one page
getPins(offset) ==
  Take(SetToSeq({i \in 1..Len(pins) : i > offset /\ ~pins[i].dispatched}), PageSize)

\* the poller reads a page: maybeRewind first, then the query
readPage ==
  /\ pc = "poll"
  /\ LET r == rewindOffchainBatches
         offset == IF r.rewind THEN r.offset ELSE pollingOffset
         items == getPins(offset)
     IN /\ pollingOffset' = offset
        /\ page' = items
        /\ pc' = IF items = <<>> THEN "poll" ELSE "dispatch"
  /\ queuedRewinds' = <<>>
  /\ UNCHANGED <<world, pinned, storeVars, committedOffset, rewindBatches,
                 rewindSenders, histVars>>
  /\ UNCHANGED nonAggVars

\* flushing the dispatched messages: their pins are marked dispatched
FlushPins(dispatched) ==
  [i \in 1..Len(pins) |->
     IF \E j \in 1..Len(dispatched) :
          /\ pins[i].batch = dispatched[j].batch
          /\ pins[i].index >= dispatched[j].firstPinIndex
          /\ pins[i].index < dispatched[j].firstPinIndex + dispatched[j].topicCount
     THEN [pins[i] EXCEPT !.dispatched = TRUE]
     ELSE pins[i]]

\* flushing the dispatched messages: their state becomes confirmed or rejected
FlushMessages(dispatched) ==
  [m \in Messages |->
     IF \E j \in 1..Len(dispatched) : dispatched[j].msg = m
     THEN LET j == CHOOSE j \in 1..Len(dispatched) :
                     dispatched[j].msg = m /\ \A l \in j+1..Len(dispatched) : dispatched[l].msg # m
          IN dispatched[j].newState
     ELSE msgState[m]]

\* the nonces a page consumed on one next-pin row, in order
ConsumedOn(advanced, key) ==
  LET a == SelectSeq(advanced, LAMBDA x : x.key = key)
  IN [i \in 1..Len(a) |-> a[i].nonce]

Fails(pg) == {[kind |-> "none", at |-> 0], [kind |-> "pre", at |-> 0], [kind |-> "fin", at |-> 0]}
             \cup {[kind |-> "pin", at |-> k] : k \in 1..Len(pg)}

DefInputs == IF \E m \in WorldMessages : Msg[m].type = "definition"
             THEN DefResults
             ELSE {[action |-> "confirm", correlator |-> None, preFinalize |-> FALSE,
                    err |-> FALSE]}

\* a slip in the index: the first pin of the page
CommittedSequenceFirst(pg) == pg[1]

\* the offset processPins commits: the sequence of the last pin of the page
CommittedSequence(pg) == pg[Len(pg)]

\* the poller commits an offset: the polling offset and the persisted offset
commitOffset(offset) ==
  /\ pollingOffset' = offset
  /\ committedOffset' = offset

\* the pre-finalize callbacks run inside the group of the callback
processWithBatchStateOneGroup(preFinalize, err) ==
  CASE err = "pin" -> <<"begin", "callback", "rollback">>
    [] err = "pre" -> <<"begin", "callback", "prefinalize", "rollback">>
    [] err = "fin" -> IF preFinalize
                      THEN <<"begin", "callback", "prefinalize", "finalize", "rollback">>
                      ELSE <<"begin", "callback", "finalize", "rollback">>
    [] OTHER -> IF preFinalize
                THEN <<"begin", "callback", "prefinalize", "finalize", "commit">>
                ELSE <<"begin", "callback", "finalize", "commit">>

\* the steps of processWithBatchState, given whether the callback registered a
\* pre-finalize callback and which step returned an error: the groups of
\* RunAsGroup ("begin" to "commit" or "rollback"), the callback, RunPreFinalize
\* and RunFinalize
processWithBatchState(preFinalize, err) ==
  CASE err = "pin" -> <<"begin", "callback", "rollback">>
    [] err = "pre" -> <<"begin", "callback", "commit", "prefinalize">>
    [] err = "fin" -> IF preFinalize
                      THEN <<"begin", "callback", "commit", "prefinalize",
                             "begin", "finalize", "rollback">>
                      ELSE <<"begin", "callback", "finalize", "rollback">>
    [] OTHER -> IF preFinalize
                THEN <<"begin", "callback", "commit", "prefinalize",
                       "begin", "finalize", "commit">>
                ELSE <<"begin", "callback", "finalize", "commit">>

\* the run record of a run of the handler that ended with err
Ran(run, err) ==
  LET steps == processWithBatchState(run.pre, err)
      n == (IF last.err # "none" THEN last.preRuns ELSE 0)
           + (IF "prefinalize" \in Range(steps) /\ err # "pre" THEN 1 ELSE 0)
  IN [run EXCEPT !.err = err, !.steps = steps,
                 !.preRuns = IF n > MaxPreRuns THEN MaxPreRuns ELSE n]

\* processPinsEventsHandler on the page the poller holds: processWithBatchState
\* around processPins.  def is what the definition handler answers, fail the
\* store call that fails, if any.  On an error the poller keeps the page and
\* calls the handler again.
processPinsEventsHandler(def, fail) ==
  /\ pc = "dispatch"
  /\ \E state \in {processPins(page, def, fail)} :
     LET run == [page |-> page, fail |-> fail.kind, def |-> def.action,
                 correlator |-> def.correlator, err |-> "none",
                 before |-> committedOffset, evBefore |-> Len(events),
                 visited |-> state.visited, processed |-> state.processed,
                 disp |-> state.disp, undisp |-> state.undisp, advanced |-> state.advanced,
                 pre |-> state.preFinalize, steps |-> <<>>, preRuns |-> 0]
     IN /\ delivered' = delivered \cup Range(page)
        /\ IF state.err
           THEN \* the callback failed: its group is rolled back
                /\ last' = Ran(run, "pin")
                /\ UNCHANGED <<storeVars, pollerVars, consumed>>
           ELSE /\ commitOffset(CommittedSequence(page))
                /\ IF state.preFinalize /\ fail.kind = "pre"
                   THEN \* RunPreFinalize failed: finalize is not run
                        /\ last' = Ran(run, "pre")
                        /\ UNCHANGED <<storeVars, pc, page, consumed>>
                   ELSE IF Len(state.dispatched) > 0 /\ fail.kind = "fin"
                   THEN \* RunFinalize failed: its group is rolled back
                        /\ last' = Ran(run, "fin")
                        /\ UNCHANGED <<storeVars, pc, page, consumed>>
                   ELSE /\ last' = Ran(run, "none")
                        /\ events' = events \o state.finalize
                        /\ nextPins' = state.np
                        /\ pins' = FlushPins(state.dispatched)
                        /\ msgState' = FlushMessages(state.dispatched)
                        /\ consumed' = [key \in NPKeys |->
                                          consumed[key] \o ConsumedOn(state.advanced, key)]
                        /\ pc' = "poll"
                        /\ page' = <<>>
                        /\ UNCHANGED <<batchStored, blobs, transfers>>
  /\ UNCHANGED <<world, pinned, rewindBatches, queuedRewinds, rewindSenders>>
  /\ UNCHANGED nonAggVars

Next ==
  \/ \E b \in Batches, batchHash \in {"h", ForgedHash} : BatchPinComplete(b, batchHash)
  \/ \E b \in Batches : BatchArrives(b)
  \/ \E blobHash \in {"b1"} : BlobReceived(blobHash)
  \/ \E m \in Messages, hashOk \in BOOLEAN : TokensTransferred(m, hashOk)
  \/ \E b \in Batches : SendRewind(b)
  \/ batchRewindListener
  \/ readPage
  \/ \E def \in DefInputs : \E fail \in Fails(page) : processPinsEventsHandler(def, fail)

Spec == Init /\ [][Next]_vars

\* no store call fails
NoFail == [kind |-> "none", at |-> 0]

\* the aggregator's tasks keep running: the poller reads pages and retries a
\* failed page until the store answers, the rewind listener drains its
\* channel, and a sender blocked on the channel gets through once there is room
Fairness ==
  /\ WF_vars(readPage)
  /\ WF_vars(batchRewindListener)
  /\ WF_vars(\E b \in Batches : SendRewind(b))
  /\ WF_vars(\E def \in DefInputs : processPinsEventsHandler(def, NoFail))

\* the networks on which progress is checked: a late batch, a late blob, a
\* late token transfer and masked pins out of order
FairWorlds == { {"BC"}, {"BT"}, {"BM", "BN"} }

FairInit == Init /\ world \in FairWorlds

FairSpec == FairInit /\ [][Next]_vars /\ Fairness

(***************************************************************************)
(* The sending node: the operations of a dispatched private batch.         *)
(***************************************************************************)
\* the dispatches and operation runs of one behaviour
MaxAttempts == 3

\* the operations one dispatch can add
MaxOps == 4

\* the sealed batches of the sending node: the nodes of the group with the
\* org that owns each, the transaction, the data records with their blobs,
\* and the contexts of the pins
Sealed ==
  [ SP |-> [group |-> "G", txType |-> "batch_pin", tx |-> "tx1",
            nodes |-> <<[id |-> "n1", parent |-> "o1"], [id |-> "n2", parent |-> "o2"]>>,
            data |-> <<[id |-> "d1", blob |-> "b1"], [id |-> "d2", blob |-> None],
                       [id |-> "d3", blob |-> "b1"]>>,
            contexts |-> <<"c1", "c2">>],
    SU |-> [group |-> "G", txType |-> "unpinned", tx |-> "tx2",
            nodes |-> <<[id |-> "n2", parent |-> "o2"], [id |-> "n3", parent |-> "o3"]>>,
            data |-> <<[id |-> "d4", blob |-> "b1"]>>,
            contexts |-> <<>>] ]

SealedBatches == DOMAIN Sealed

\* the org that owns the local node (identity.GetNodeOwnerOrg)
LocalOrg == "o1"

\* the error messages of the plugins
ErrMsgs == {"pop", "bang"}

\* the failures injected into a dispatch: the lookup of the group, or at
\* operation number at of the dispatch the lookup of the blob, the insert
\* of the operation, or the plugin call of the handler
DispatchFails ==
  {[kind |-> "none", at |-> 0, msg |-> None]}
    \cup {[kind |-> "group", at |-> 0, msg |-> e] : e \in {"pop"}}
    \cup {[kind |-> k, at |-> n, msg |-> e] :
             k \in {"get", "add", "run"}, n \in 1..MaxOps, e \in {"pop"}}

\* the nil operation id
NoOp == 0

\* fftypes.NewOperation: a pending operation with a new id
NewOperation(id, plugin, type, tx) ==
  [id |-> id, plugin |-> plugin, type |-> type, tx |-> tx, status |-> "pending",
   error |-> "", input |-> None, retry |-> NoOp]

\* the input carries the id of the operation as well
addTransferBlobInputsWithID(op, nodeID, blobHash) ==
  [op EXCEPT !.input = [node |-> nodeID, hash |-> blobHash, id |-> op.id]]

addTransferBlobInputs(op, nodeID, blobHash) ==
  [op EXCEPT !.input = [node |-> nodeID, hash |-> blobHash]]

addBatchSendInputs(op, nodeID, groupHash, batchID) ==
  [op EXCEPT !.input = [node |-> nodeID, group |-> groupHash, batch |-> batchID]]

\* the input of a pin-batch operation
addBatchPinInputs(op, batchID, contexts) ==
  [op EXCEPT !.input = [batch |-> batchID, contexts |-> contexts]]

\* opSendBlob, opSendBatch, opBatchPin: the prepared operation keeps the id
\* and the type of the operation
opPrepared(op) == [id |-> op.id, type |-> op.type]

\* the rows of ops with the type and the input of op
Matching(ops, op) ==
  {i \in 1..Len(ops) : ops[i].type = op.type /\ ops[i].input = op.input}

\* AddOrReuseOperation: inserts op if no operation with its type and input
\* is stored, else gives the stored one
AddOrReuseOperation(ops, op) ==
  IF Matching(ops, op) = {}
  THEN [ops |-> Append(ops, op), op |-> op, reused |-> FALSE]
  ELSE [ops |-> ops, op |-> ops[CHOOSE i \in Matching(ops, op) : TRUE], reused |-> TRUE]

\* database ResolveOperation: sets the status and the error of operation id
ResolveOperation(ops, id, status, errorMsg) ==
  [i \in 1..Len(ops) |->
     IF ops[i].id = id THEN [ops[i] EXCEPT !.status = status, !.error = errorMsg]
     ELSE ops[i]]

\* the operation row with this id
RowOf(ops, id) == ops[CHOOSE i \in 1..Len(ops) : ops[i].id = id]

\* no call of ResolveOperation
NoResolve == [called |-> FALSE, status |-> "", error |-> ""]

\* every handler error resolves the operation to failed
RunOperationAlwaysFailed(ops, prepared, h, remainPending) ==
  IF h.err # None
  THEN [ops |-> ResolveOperation(ops, prepared.id, "failed", h.err),
        resolved |-> [called |-> TRUE, status |-> "failed", error |-> h.err], ret |-> h.err]
  ELSE IF h.complete
  THEN [ops |-> ResolveOperation(ops, prepared.id, "succeeded", ""),
        resolved |-> [called |-> TRUE, status |-> "succeeded", error |-> ""], ret |-> None]
  ELSE [ops |-> ops, resolved |-> NoResolve, ret |-> None]

\* the operations manager's RunOperation on a prepared operation, h being
\* what the registered handler returns and remainPending the option
\* RemainPendingOnFailure
RunOperation(ops, prepared, h, remainPending) ==
  IF h.err # None
  THEN LET status == IF remainPending THEN "pending" ELSE "failed"
       IN [ops |-> ResolveOperation(ops, prepared.id, status, h.err),
           resolved |-> [called |-> TRUE, status |-> status, error |-> h.err], ret |-> h.err]
  ELSE IF h.complete
  THEN [ops |-> ResolveOperation(ops, prepared.id, "succeeded", ""),
        resolved |-> [called |-> TRUE, status |-> "succeeded", error |-> ""], ret |-> None]
  ELSE [ops |-> ops, resolved |-> NoResolve, ret |-> None]

\* privateMessaging.RunOperation: the error of the data exchange, never
\* complete
pmRunOperation(exchangeErr) == [complete |-> FALSE, err |-> exchangeErr]

\* the record of one call of RunOperation
RunRecord(before, op, h, remainPending, reused, r) ==
  [id |-> op.id, type |-> op.type, complete |-> h.complete, err |-> h.err,
   remain |-> remainPending, reused |-> reused, resolved |-> r.resolved,
   ret |-> r.ret, before |-> RowOf(before, op.id), after |-> RowOf(r.ops, op.id)]

\* AddOrReuseOperation then RunOperation for operation number st.n + 1 of
\* the dispatch; st.old is the number of operations stored before the dispatch
addThenRun(st, op, fail) ==
  LET n == st.n + 1
  IN IF fail.kind = "add" /\ fail.at = n
     THEN [st EXCEPT !.err = fail.msg, !.n = n]
     ELSE LET a == AddOrReuseOperation(st.ops, op)
              h == pmRunOperation(IF fail.kind = "run" /\ fail.at = n
                                  THEN fail.msg ELSE None)
              r == RunOperation(a.ops, opPrepared(a.op), h, FALSE)
          IN [st EXCEPT !.ops = r.ops, !.n = n, !.err = r.ret,
                        !.runs = Append(@, RunRecord(a.ops, a.op, h, FALSE,
                                                     a.reused, r))]

\* the loop of transferBlobs from data record k on
RECURSIVE transferBlobsLoop(_, _, _, _, _, _)
transferBlobsLoop(st, data, k, txid, node, fail) ==
  IF k > Len(data) \/ st.err # None THEN st
  ELSE IF data[k].blob = None
  THEN transferBlobsLoop(st, data, k + 1, txid, node, fail)
  ELSE IF fail.kind = "get" /\ fail.at = st.n + 1
  THEN [st EXCEPT !.err = fail.msg]
  ELSE Strict(addThenRun(st,
                addTransferBlobInputs(
                  NewOperation(Len(st.ops) + 1, "dataexchange", "dataexchange_blob_send", txid),
                  node.id, data[k].blob),
                fail),
              LAMBDA next : transferBlobsLoop(next, data, k + 1, txid, node, fail))

\* no blob is transferred
transferBlobsNone(st, data, txid, node, fail) == st

transferBlobs(st, data, txid, node, fail) ==
  transferBlobsLoop(st, data, 1, txid, node, fail)

\* batchSendData: what a prepared batch-send operation carries
batchSendData(node, transport) == [node |-> node, transport |-> transport]

\* opSendBatch(op, node, tw) as handed to RunOperation by sendData: kept in
\* the history of the dispatch when the call was made
ranSendBatch(sent, next, node, tw) ==
  IF Len(next.runs) > Len(sent.runs)
  THEN [next EXCEPT !.sends = Append(@, [id |-> next.runs[Len(next.runs)].id,
                                         data |-> batchSendData(node, tw)])]
  ELSE next

\* the loop of sendData from node number i on; tw is the transport wrapper:
\* the batch and, for an unpinned batch, the group
RECURSIVE sendDataLoop(_, _, _, _, _)
sendDataLoop(st, tw, nodes, i, fail) ==
  IF i > Len(nodes) \/ st.err # None THEN st
  ELSE IF nodes[i].parent = LocalOrg
  THEN sendDataLoop(st, tw, nodes, i + 1, fail)
  ELSE Strict(transferBlobs(st, Sealed[tw.batch].data, Sealed[tw.batch].tx, nodes[i], fail),
         LAMBDA sent :
           IF sent.err # None THEN sent
           ELSE Strict(addThenRun(sent,
                         addBatchSendInputs(
                           NewOperation(Len(sent.ops) + 1, "dataexchange", "dataexchange_batch_send",
                                        Sealed[tw.batch].tx),
                           nodes[i].id, tw.group, tw.batch),
                         fail),
                       LAMBDA next : sendDataLoop(ranSendBatch(sent, next, nodes[i], tw),
                                                  tw, nodes, i + 1, fail)))

sendData(st, tw, nodes, fail) == sendDataLoop(st, tw, nodes, 1, fail)

\* the group travels with every batch
dispatchBatchCommonWithGroup(st, b, fail) ==
  IF fail.kind = "group" THEN [st EXCEPT !.err = fail.msg]
  ELSE sendData(st, [batch |-> b, group |-> Sealed[b].group], Sealed[b].nodes, fail)

\* dispatchBatchCommon: the group travels with an unpinned batch only
dispatchBatchCommon(st, b, fail) ==
  IF fail.kind = "group" THEN [st EXCEPT !.err = fail.msg]
  ELSE sendData(st,
                [batch |-> b,
                 group |-> IF Sealed[b].txType = "unpinned" THEN Sealed[b].group ELSE None],
                Sealed[b].nodes, fail)

SubmitPinnedBatch(st, b, contexts, fail) ==
  addThenRun(st,
             addBatchPinInputs(NewOperation(Len(st.ops) + 1, "blockchain", "blockchain_pin_batch",
                                            Sealed[b].tx),
                               b, contexts),
             fail)

\* the state of a dispatch that starts on the stored operations
DispatchStart ==
  [ops |-> operations, runs |-> <<>>, err |-> None, n |-> 0, sends |-> <<>>]

\* the dispatcher of pinned private batches: one dispatch of sealed batch b,
\* retried by the batch processor when it returns an error
dispatchPinnedBatch(b, fail) ==
  /\ attempts < MaxAttempts
  /\ Sealed[b].txType = "batch_pin"
  /\ \E sent \in {dispatchBatchCommon(DispatchStart, b, fail)} :
     \E st \in {IF sent.err # None THEN sent
                ELSE SubmitPinnedBatch(sent, b, Sealed[b].contexts, fail)} :
       /\ fail.at <= st.n + 1
       /\ operations' = st.ops
       /\ opLast' = [kind |-> "pinned", batch |-> b, err |-> st.err, runs |-> st.runs,
                     sends |-> st.sends]
  /\ attempts' = attempts + 1
  /\ UNCHANGED nonOpVars

\* the dispatcher of unpinned private batches
dispatchUnpinnedBatch(b, fail) ==
  /\ attempts < MaxAttempts
  /\ Sealed[b].txType = "unpinned"
  /\ \E st \in {dispatchBatchCommon(DispatchStart, b, fail)} :
       /\ fail.at <= st.n + 1
       /\ operations' = st.ops
       /\ opLast' = [kind |-> "unpinned", batch |-> b, err |-> st.err, runs |-> st.runs,
                     sends |-> st.sends]
  /\ attempts' = attempts + 1
  /\ UNCHANGED nonOpVars

\* what a registered handler returns: complete or not, or an error
HandlerResults ==
  {[complete |-> c, err |-> None] : c \in BOOLEAN}
    \cup {[complete |-> FALSE, err |-> e] : e \in ErrMsgs}

\* RunOperation called on stored operation number i
RunStoredOperation(i, h, remainPending) ==
  /\ attempts < MaxAttempts
  /\ \E r \in {RunOperation(operations, opPrepared(operations[i]), h, remainPending)} :
       /\ operations' = r.ops
       /\ opLast' = [kind |-> "run", batch |-> None, err |-> r.ret,
                     runs |-> <<RunRecord(operations, operations[i], h,
                                          remainPending, TRUE, r)>>]
  /\ attempts' = attempts + 1
  /\ UNCHANGED nonOpVars

\* the failures injected into PrepareOperation: of GetIdentityByID, of
\* GetGroupByHash, of GetBatchByID, of HydrateBatch
PrepareFails == {"none", "node", "group", "batch", "hydrate"}

\* what parsing the recorded text of a nil group hash gives: an error or the
\* nil hash (the parser is not part of the sources at hand)
NilHashParses == {"err", "nil"}

\* no prepared operation
NoData ==
  [node |-> [id |-> None, parent |-> None], transport |-> [batch |-> None, group |-> None]]

\* retrieveBatchSendInputs: the node id, the group hash and the batch id
\* parsed from the input of the operation
retrieveBatchSendInputs(op, nilHash) ==
  IF op.input.group = None /\ nilHash = "err"
  THEN [err |-> "bad hash", nodeID |-> op.input.node, groupHash |-> None, batchID |-> None]
  ELSE [err |-> None, nodeID |-> op.input.node, groupHash |-> op.input.group,
        batchID |-> op.input.batch]

\* database GetIdentityByID, GetGroupByHash and GetBatchByID on the rows of
\* the sending node; None when there is no row
GetIdentityByID(nodeID) ==
  LET found == {n \in UNION {Range(Sealed[b].nodes) : b \in SealedBatches} : n.id = nodeID}
  IN IF found = {} THEN [id |-> None, parent |-> None] ELSE CHOOSE n \in found : TRUE

GetGroupByHash(groupHash) ==
  IF groupHash \in {Sealed[b].group : b \in SealedBatches} THEN groupHash ELSE None

GetBatchByID(batchID) == IF batchID \in SealedBatches THEN batchID ELSE None

\* PrepareOperation on a batch-send operation
PrepareSendBatch(op, fail, nilHash) ==
  LET in == retrieveBatchSendInputs(op, nilHash)
      node == GetIdentityByID(in.nodeID)
      group == GetGroupByHash(in.groupHash)
      bp == GetBatchByID(in.batchID)
  IN IF in.err # None THEN [err |-> in.err, data |-> NoData]
     ELSE IF fail = "node" THEN [err |-> "pop", data |-> NoData]
     ELSE IF node.id = None THEN [err |-> "not found", data |-> NoData]
     ELSE IF fail = "group" THEN [err |-> "pop", data |-> NoData]
     ELSE IF group = None THEN [err |-> "not found", data |-> NoData]
     ELSE IF fail = "batch" THEN [err |-> "pop", data |-> NoData]
     ELSE IF bp = None THEN [err |-> "not found", data |-> NoData]
     ELSE IF fail = "hydrate" THEN [err |-> "pop", data |-> NoData]
     ELSE [err |-> None, data |-> batchSendData(node, [batch |-> bp, group |-> group])]

\* the prepared batch-send operations of the dispatches so far
SendsSoFar == IF opLast.kind \in {"pinned", "unpinned", "prepare"} THEN opLast.sends ELSE <<>>

\* privateMessaging.PrepareOperation called on stored batch-send operation
\* number i; the history keeps what sendData recorded and ran for it
PrepareOperation(i, fail, nilHash) ==
  /\ attempts < MaxAttempts
  /\ operations[i].type = "dataexchange_batch_send"
  /\ \E r \in {PrepareSendBatch(operations[i], fail, nilHash)} :
       opLast' = [kind |-> "prepare", batch |-> None, err |-> r.err, runs |-> <<>>,
                  id |-> operations[i].id, fail |-> fail, data |-> r.data,
                  retrieved |-> retrieveBatchSendInputs(operations[i], nilHash),
                  input |-> operations[i].input, sends |-> SendsSoFar]
  /\ attempts' = attempts + 1
  /\ UNCHANGED <<operations, nonOpVars>>

OpInit == Init /\ world = {"BA"}

OpNext ==
  \/ \E b \in SealedBatches, fail \in DispatchFails : dispatchPinnedBatch(b, fail)
  \/ \E b \in SealedBatches, fail \in DispatchFails : dispatchUnpinnedBatch(b, fail)
  \/ \E i \in 1..Len(operations), h \in HandlerResults, remainPending \in BOOLEAN :
       RunStoredOperation(i, h, remainPending)
  \/ \E i \in 1..Len(operations), fail \in PrepareFails, nilHash \in NilHashParses :
       PrepareOperation(i, fail, nilHash)

OpSpec == OpInit /\ [][OpNext]_vars

(***************************************************************************)
(* The retry of an operation.                                              *)
(***************************************************************************)
\* the failures injected into RetryOperation: of GetOperationByID, of
\* InsertOperation, of UpdateOperation
RetryFails == {"none", "get", "insert", "update"}

\* the operation asked for is the one retried
findLatestRetryFirst(ops, id) == id

\* follows the retry links from operation id to the latest of the chain
RECURSIVE findLatestRetry(_, _)
findLatestRetry(ops, id) ==
  IF RowOf(ops, id).retry = NoOp THEN id
  ELSE findLatestRetry(ops, RowOf(ops, id).retry)

\* UpdateOperation setting the retry field of operation id
SetRetry(ops, id, newID) ==
  [i \in 1..Len(ops) |-> IF ops[i].id = id THEN [ops[i] EXCEPT !.retry = newID]
                         ELSE ops[i]]

\* RetryOperation on stored operation id: the latest operation of its chain
\* is copied under a new id with status pending, linked from the latest and
\* run again; h is what the handler returns on the rerun
RetryOperation(id, fail, h) ==
  /\ attempts < MaxAttempts
  /\ attempts' = attempts + 1
  /\ IF fail # "none"
     THEN /\ operations' = operations
          /\ opLast' = [kind |-> "retry", batch |-> None, err |-> "pop", runs |-> <<>>,
                        id |-> id, fail |-> fail, old |-> operations]
     ELSE \E latest \in {findLatestRetry(operations, id)} :
          \E newOp \in {[RowOf(operations, latest) EXCEPT
                           !.id = Len(operations) + 1, !.status = "pending",
                           !.error = "", !.retry = NoOp]} :
          \E linked \in {SetRetry(Append(operations, newOp), latest, newOp.id)} :
          \E r \in {RunOperation(linked, opPrepared(newOp), h, FALSE)} :
            /\ operations' = r.ops
            /\ opLast' = [kind |-> "retry", batch |-> None, err |-> r.ret,
                          runs |-> <<RunRecord(linked, newOp, h, FALSE, FALSE, r)>>,
                          id |-> id, fail |-> fail, old |-> operations]
  /\ UNCHANGED nonOpVars

RetryNext ==
  \/ \E b \in SealedBatches, fail \in DispatchFails : dispatchPinnedBatch(b, fail)
  \/ \E i \in 1..Len(operations), fail \in RetryFails, h \in HandlerResults :
       RetryOperation(operations[i].id, fail, h)

RetrySpec == OpInit /\ [][RetryNext]_vars

(***************************************************************************)
(* The TokensTransferred callback of the token connector.                  *)
(***************************************************************************)
\* the callbacks of one behaviour
MaxDeliveries == 3

\* the transfers the connectors deliver: pool F1 is known, pool F9 is not
Deliveries ==
  {[connector |-> c, protocolId |-> id, pool |-> pl, to |-> "0x2", amount |-> n] :
     c \in {"erc1155", "erc20"}, id \in {"123", "124"}, pl \in {"F1", "F9"}, n \in {1, 2}}

\* the store call that fails in the first attempt of a callback
TokenFails == {"none", "GetTokenTransferByProtocolID", "GetTokenPoolByProtocolID",
               "InsertBlockchainEvent", "UpsertTokenTransfer", "UpdateTokenBalances",
               "InsertEvent"}

\* GetTokenTransferByProtocolID
GetTokenTransferByProtocolID(st, connector, protocolId) ==
  {i \in 1..Len(st.transfers) : /\ st.transfers[i].connector = connector
                                /\ st.transfers[i].protocolId = protocolId}

\* one attempt, in a group of the store, at persisting the transfer and
\* inserting its events; the calls made are appended to st.calls and an
\* attempt that fails leaves the store as it was
AttemptSteps(st, transfer, fail, existing) ==
  LET steps == IF existing THEN <<"GetTokenTransferByProtocolID">>
               ELSE IF transfer.pool # "F1"
               THEN <<"GetTokenTransferByProtocolID", "GetTokenPoolByProtocolID">>
               ELSE <<"GetTokenTransferByProtocolID", "GetTokenPoolByProtocolID",
                      "InsertBlockchainEvent", "InsertEvent blockchain_event_received",
                      "UpsertTokenTransfer", "UpdateTokenBalances", "InsertEvent">>
      upTo == {i \in 1..Len(steps) : steps[i] = fail}
  IN IF upTo = {} THEN [calls |-> steps, err |-> FALSE]
     ELSE [calls |-> Take(steps, CHOOSE i \in upTo : TRUE), err |-> TRUE]

\* the transfer is persisted whether or not one with its protocol id exists
persistTokenTransferNoCheck(st, transfer, fail) ==
  LET a == AttemptSteps(st, transfer, fail, FALSE)
  IN IF a.err THEN [st |-> st, calls |-> a.calls, err |-> TRUE, valid |-> FALSE]
     ELSE IF transfer.pool # "F1"
     THEN [st |-> st, calls |-> a.calls, err |-> FALSE, valid |-> FALSE]
     ELSE [st |-> [st EXCEPT
                     !.transfers = Append(@, transfer),
                     !.balances = [@ EXCEPT ![transfer.to] = @ + transfer.amount],
                     !.events = @ \o <<[type |-> "blockchain_event_received",
                                        ref |-> <<transfer.connector, transfer.protocolId>>],
                                       [type |-> "token_transfer_confirmed",
                                        ref |-> <<transfer.connector, transfer.protocolId>>]>>],
           calls |-> a.calls, err |-> FALSE, valid |-> TRUE]

\* persistTokenTransfer followed by the insert of the confirmation event:
\* nothing is done for a transfer whose (connector, protocol id) is
\* persisted, nor for one of an unknown pool
persistTokenTransfer(st, transfer, fail) ==
  LET existing == GetTokenTransferByProtocolID(st, transfer.connector,
                                               transfer.protocolId) # {}
      a == AttemptSteps(st, transfer, fail, existing)
  IN IF a.err THEN [st |-> st, calls |-> a.calls, err |-> TRUE, valid |-> FALSE]
     ELSE IF existing \/ transfer.pool # "F1"
     THEN [st |-> st, calls |-> a.calls, err |-> FALSE, valid |-> FALSE]
     ELSE [st |-> [st EXCEPT
                     !.transfers = Append(@, transfer),
                     !.balances = [@ EXCEPT ![transfer.to] = @ + transfer.amount],
                     !.events = @ \o <<[type |-> "blockchain_event_received",
                                        ref |-> <<transfer.connector, transfer.protocolId>>],
                                       [type |-> "token_transfer_confirmed",
                                        ref |-> <<transfer.connector, transfer.protocolId>>]>>],
           calls |-> a.calls, err |-> FALSE, valid |-> TRUE]

\* the TokensTransferred callback: attempts are retried until one returns
\* no error; fail is the store call that fails in the first attempt
TokensTransferredCallback(transfer, fail) ==
  /\ tokenState.deliveries < MaxDeliveries
  /\ \E first \in {persistTokenTransfer(tokenState, transfer, fail)} :
     \E done \in {IF first.err THEN persistTokenTransfer(first.st, transfer, "none")
                   ELSE first} :
       \* a failure injected at a call the attempt never makes is no input
       /\ (fail # "none") => first.err
       /\ tokenState' =
            [done.st EXCEPT
               !.deliveries = @ + 1,
               !.last = [transfer |-> transfer,
                         existing |-> GetTokenTransferByProtocolID(
                                        tokenState, transfer.connector,
                                        transfer.protocolId) # {},
                         calls |-> IF first.err THEN first.calls \o done.calls
                                   ELSE done.calls,
                         transfers |-> tokenState.transfers,
                         balances |-> tokenState.balances,
                         events |-> tokenState.events]]
  /\ UNCHANGED nonTokenVars

TokenInit == Init /\ world = {"BA"}

TokenNext ==
  \E transfer \in Deliveries, fail \in TokenFails : TokensTransferredCallback(transfer, fail)

TokenSpec == TokenInit /\ [][TokenNext]_vars

(***************************************************************************)
(* The TokensTransferred callback for a transfer that refers to a message. *)
(***************************************************************************)
\* the transfers with a message: of a staged message, of a received one, of
\* one the node does not have
MsgDeliveries ==
  {[connector |-> "erc1155", protocolId |-> id, pool |-> "F1", to |-> "0x2", amount |-> 1,
    message |-> m] : id \in {"123", "124"}, m \in {"s1", "r1", "x1"}}

\* the store call that fails in the first attempt of a callback
TokenMsgFails == {"none", "UpsertTokenTransfer", "GetMessageByID", "ReplaceMessage",
                  "InsertEvent"}

\* the message is left as it is and nothing is rewound
messageStepNone(st, transfer, fail) ==
  [st |-> st, calls |-> <<>>, err |-> FALSE, batchID |-> None]

\* the message of the transfer: a staged message becomes ready, the batch of
\* any other message is to be rewound
messageStep(st, transfer, fail) ==
  IF fail = "GetMessageByID"
  THEN [st |-> st, calls |-> <<"GetMessageByID">>, err |-> TRUE, batchID |-> None]
  ELSE IF transfer.message \notin DOMAIN st.messages
  THEN [st |-> st, calls |-> <<"GetMessageByID">>, err |-> FALSE, batchID |-> None]
  ELSE IF st.messages[transfer.message] = "staged"
  THEN IF fail = "ReplaceMessage"
       THEN [st |-> st, calls |-> <<"GetMessageByID", "ReplaceMessage">>, err |-> TRUE,
             batchID |-> None]
       ELSE [st |-> [st EXCEPT !.messages[transfer.message] = "ready"],
             calls |-> <<"GetMessageByID", "ReplaceMessage">>, err |-> FALSE,
             batchID |-> None]
  ELSE [st |-> st, calls |-> <<"GetMessageByID">>, err |-> FALSE,
        batchID |-> TokenMsgs[transfer.message].batch]

\* one attempt, in a group of the store: the transfer is persisted, its
\* message handled and the confirmation event inserted; an attempt that
\* fails leaves the store as it was
attemptWithMessage(st, transfer, fail) ==
  LET ref == <<transfer.connector, transfer.protocolId>>
      existing == GetTokenTransferByProtocolID(st, transfer.connector,
                                               transfer.protocolId) # {}
      persisted == [st EXCEPT
                      !.transfers = Append(@, transfer),
                      !.balances = [@ EXCEPT ![transfer.to] = @ + transfer.amount],
                      !.events = Append(@, [type |-> "blockchain_event_received",
                                            ref |-> ref])]
      msg == messageStep(persisted, transfer, fail)
  IN IF existing
     THEN [st |-> st, calls |-> <<"GetTokenTransferByProtocolID">>, err |-> FALSE,
           batchID |-> None]
     ELSE IF fail = "UpsertTokenTransfer"
     THEN [st |-> st, calls |-> <<"GetTokenTransferByProtocolID", "UpsertTokenTransfer">>,
           err |-> TRUE, batchID |-> None]
     ELSE IF msg.err
     THEN [st |-> st,
           calls |-> <<"GetTokenTransferByProtocolID", "UpsertTokenTransfer">> \o msg.calls,
           err |-> TRUE, batchID |-> None]
     ELSE IF fail = "InsertEvent"
     THEN [st |-> st,
           calls |-> <<"GetTokenTransferByProtocolID", "UpsertTokenTransfer">> \o msg.calls
                       \o <<"InsertEvent">>,
           err |-> TRUE, batchID |-> None]
     ELSE [st |-> [msg.st EXCEPT !.events = Append(@, [type |-> "token_transfer_confirmed",
                                                       ref |-> ref])],
           calls |-> <<"GetTokenTransferByProtocolID", "UpsertTokenTransfer">> \o msg.calls
                       \o <<"InsertEvent">>,
           err |-> FALSE, batchID |-> msg.batchID]

\* the TokensTransferred callback for a transfer with a message: attempts
\* are retried until one returns no error, and a batch to rewind is sent on
\* rewindBatches, which takes it when it has room
TokensTransferredWithMessage(transfer, fail) ==
  /\ tokenState.deliveries < MaxDeliveries
  /\ \E first \in {attemptWithMessage(tokenState, transfer, fail)} :
     \E done \in {IF first.err THEN attemptWithMessage(first.st, transfer, "none")
                   ELSE first} :
       /\ (fail # "none") => first.err
       /\ IF done.batchID # None
          THEN /\ Len(rewindBatches) < RewindBatchesCap
               /\ rewindBatches' = Append(rewindBatches, done.batchID)
          ELSE UNCHANGED rewindBatches
       /\ tokenState' =
            [done.st EXCEPT
               !.deliveries = @ + 1,
               !.last = [transfer |-> transfer,
                         existing |-> GetTokenTransferByProtocolID(
                                        tokenState, transfer.connector,
                                        transfer.protocolId) # {},
                         calls |-> IF first.err THEN first.calls \o done.calls
                                   ELSE done.calls,
                         transfers |-> tokenState.transfers,
                         balances |-> tokenState.balances,
                         events |-> tokenState.events,
                         messages |-> tokenState.messages,
                         retried |-> first.err,
                         rewindBatches |-> rewindBatches,
                         batchID |-> done.batchID]]
  /\ UNCHANGED <<world, pinned, storeVars, pollerVars, queuedRewinds, rewindSenders,
                 histVars>>
  /\ UNCHANGED <<opVars, subState, bpState, pinQuery, maskState, rewindCtx>>

TokenMsgNext ==
  \/ \E transfer \in MsgDeliveries, fail \in TokenMsgFails :
       TokensTransferredWithMessage(transfer, fail)
  \/ batchRewindListener

TokenMsgSpec == TokenInit /\ [][TokenMsgNext]_vars

(***************************************************************************)
(* The connections and dispatchers of the subscription manager.            *)
(***************************************************************************)
\* the ephemeral subscriptions created in one behaviour
MaxEphemerals == 3

Transports == {"ut", "ut2"}
DurableSubs == {"sub1", "sub2"}
EphemeralSubs == <<"eph1", "eph2", "eph3", "eph4">>
EphemeralIDs == {EphemeralSubs[i] : i \in 1..Len(EphemeralSubs)}

\* the matchers a connection registers with: the durable subscriptions it takes
Matchers == SUBSET DurableSubs

SubDone(st, op, conn, transport, err) ==
  [st EXCEPT !.last = [op |-> op, conn |-> conn, transport |-> transport, err |-> err,
                       connections |-> subState.connections,
                       running |-> subState.running]]

\* a connection id belongs to the transport that first used it
connOwned(st, conn, transport) ==
  st.connections[conn] = NoConn \/ st.connections[conn].transport = transport

\* closing a connection without closing its dispatchers
deleteConnectionOnly(st, conn) ==
  [st EXCEPT !.connections[conn] = NoConn]

\* closing a connection closes each of its dispatchers
deleteConnection(st, conn) ==
  [st EXCEPT !.connections[conn] = NoConn,
             !.running = {d \in @ : d[1] # conn}]

\* RegisterConnection: the dispatchers of the connection become those of the
\* durable subscriptions its matcher takes; the ephemeral ones stay
RegisterConnection(transport, conn, matcher) ==
  /\ IF ~connOwned(subState, conn, transport)
     THEN subState' = SubDone(subState, "RegisterConnection", conn, transport, "FF10190")
     ELSE LET keep == (subState.connections[conn].dispatchers \cap EphemeralIDs) \cup matcher
          IN subState' =
               SubDone([subState EXCEPT
                          !.connections[conn] = [transport |-> transport,
                                                 dispatchers |-> keep],
                          !.running = {d \in @ : d[1] # conn}
                                        \cup {<<conn, sub>> : sub \in keep}],
                       "RegisterConnection", conn, transport, "")
  /\ UNCHANGED nonSubVars

\* EphemeralSubscription: the connection is created if it is new, and a
\* subscription with a filter that compiles gets a dispatcher on it
EphemeralSubscription(transport, conn, filterOk) ==
  /\ subState.ephemerals < MaxEphemerals
  /\ IF ~connOwned(subState, conn, transport)
     THEN subState' = SubDone(subState, "EphemeralSubscription", conn, transport, "FF10190")
     ELSE LET created == [subState EXCEPT !.connections[conn].transport = transport]
              sub == EphemeralSubs[subState.ephemerals + 1]
          IN IF ~filterOk
             THEN subState' = SubDone(created, "EphemeralSubscription", conn, transport,
                                      "FF10171")
             ELSE subState' =
                    SubDone([created EXCEPT
                               !.connections[conn].dispatchers = @ \cup {sub},
                               !.running = @ \cup {<<conn, sub>>},
                               !.ephemerals = @ + 1],
                            "EphemeralSubscription", conn, transport, "")
  /\ UNCHANGED nonSubVars

\* ConnnectionClosed: a connection of this transport is removed with its
\* dispatchers; an unknown connection or one of another transport is left
ConnnectionClosed(transport, conn) ==
  /\ IF subState.connections[conn] = NoConn \/ ~connOwned(subState, conn, transport)
     THEN subState' = SubDone(subState, "ConnnectionClosed", conn, transport, "")
     ELSE subState' = SubDone(deleteConnection(subState, conn),
                              "ConnnectionClosed", conn, transport, "")
  /\ UNCHANGED nonSubVars

SubInit == Init /\ world = {"BA"}

SubNext ==
  \/ \E transport \in Transports, conn \in ConnIDs, matcher \in Matchers :
       RegisterConnection(transport, conn, matcher)
  \/ \E transport \in Transports, conn \in ConnIDs, filterOk \in BOOLEAN :
       EphemeralSubscription(transport, conn, filterOk)
  \/ \E transport \in Transports, conn \in ConnIDs : ConnnectionClosed(transport, conn)

SubSpec == SubInit /\ [][SubNext]_vars

(***************************************************************************)
(* The batch processor: assembly, seal, dispatch.                          *)
(***************************************************************************)
\* the failed attempts counted in one retry loop, and the transient failures
\* one loop sees
MaxBatchFails == 2

\* the estimated size of an empty batch and of a message
batchSizeEstimateBase == 1
msgEstimateSize == 2

\* the configurations of the processors: the one of newTestBatchProcessor, a
\* byte limit that one message fits and two exceed, BatchMaxSize 1, an
\* unpinned processor, and two whose transaction submit or dispatch handler
\* always returns an error
BatchConfs ==
  {TestConf,
   [TestConf EXCEPT !.BatchMaxBytes = batchSizeEstimateBase + msgEstimateSize + 1],
   [TestConf EXCEPT !.BatchMaxSize = 1],
   [TestConf EXCEPT !.BatchMaxSize = 2],
   [TestConf EXCEPT !.txType = "unpinned"],
   [TestConf EXCEPT !.failing = "seal"],
   [TestConf EXCEPT !.failing = "dispatch"]}

\* the estimated size of a batch of these messages
estimateSize(q) == batchSizeEstimateBase + Len(q) * msgEstimateSize

\* the assembly queue is kept sorted by sequence
addWorkSorted(q, w) ==
  SelectSeq(q, LAMBDA x : x < w) \o <<w>> \o SelectSeq(q, LAMBDA x : x > w)

\* a batch is full only once it is over BatchMaxSize
fullOver(conf, q) ==
  Len(q) > conf.BatchMaxSize \/ estimateSize(q) >= conf.BatchMaxBytes

\* a batch is full when it holds BatchMaxSize messages or BatchMaxBytes bytes
full(conf, q) ==
  Len(q) >= conf.BatchMaxSize \/ estimateSize(q) >= conf.BatchMaxBytes

\* the next item takes a batch that is not empty over BatchMaxBytes
overflow(conf, old, q) ==
  Len(old) > 0 /\ estimateSize(q) > conf.BatchMaxBytes

\* the messages are handed over to be sealed; rest stays in the queue
flush(st, msgs, rest, trigger, w) ==
  [st EXCEPT !.assemblyQueue = rest,
             !.flushing = [msgs |-> msgs, trigger |-> trigger, work |-> w],
             !.attempts = 0,
             !.pc = "seal"]

\* an item over the byte limit is sealed with the batch
addWorkNoOverflow(st, w) ==
  LET q == addWorkSorted(st.assemblyQueue, w)
      arrived == [st EXCEPT !.arrivals = Append(@, w)]
  IN IF full(st.conf, q) \/ overflow(st.conf, st.assemblyQueue, q)
     THEN flush(arrived, q, <<>>, "full", w)
     ELSE [arrived EXCEPT !.assemblyQueue = q]

\* addWork and the flush it triggers: on an overflow the batch is sealed
\* without the new item, which opens the next batch
addWork(st, w) ==
  LET q == addWorkSorted(st.assemblyQueue, w)
      arrived == [st EXCEPT !.arrivals = Append(@, w)]
  IN IF overflow(st.conf, st.assemblyQueue, q)
     THEN flush(arrived, st.assemblyQueue, <<w>>, "overflow", w)
     ELSE IF full(st.conf, q)
     THEN flush(arrived, q, <<>>, "full", w)
     ELSE [arrived EXCEPT !.assemblyQueue = q]

\* on the timeout only the head of the queue is sealed
timeoutFlushHead(st) ==
  flush(st, <<Head(st.assemblyQueue)>>, Tail(st.assemblyQueue), "timeout", 0)

\* on the timeout everything queued is sealed into one batch
timeoutFlush(st) == flush(st, st.assemblyQueue, <<>>, "timeout", 0)

\* a retry loop never looks at its context
retryCancelledNever(st) == FALSE

\* a retry loop gives up after a failed attempt once its context is cancelled
retryCancelled(st) == st.cancelled /\ st.attempts > 0

\* an attempt may fail: always when the step is the one that keeps failing,
\* and else a bounded number of times
mayFail(st, step) ==
  st.conf.failing = step \/ (st.conf.failing = "none" /\ st.attempts < MaxBatchFails)

failedAttempt(st) ==
  [st EXCEPT !.attempts = IF @ < MaxBatchFails THEN @ + 1 ELSE @]

\* every dispatched batch gets confirmation events, pinned or not
markMessagesDispatchedWithEvents(st) ==
  [st EXCEPT !.events = @ \o [i \in 1..Len(st.flushing.msgs) |->
                                [type |-> "message_confirmed",
                                 ref |-> st.flushing.msgs[i]]],
             !.msgState = [w \in Work |-> IF w \in Range(st.flushing.msgs)
                                          THEN "sent" ELSE @[w]]]

\* markMessagesDispatched: the messages of a pinned batch are set to sent,
\* those of an unpinned batch get their confirmation events
markMessagesDispatched(st) ==
  LET msgs == Range(st.flushing.msgs)
  IN IF st.conf.txType = "unpinned"
     THEN [st EXCEPT !.events = @ \o [i \in 1..Len(st.flushing.msgs) |->
                                        [type |-> "message_confirmed",
                                         ref |-> st.flushing.msgs[i]]]]
     ELSE [st EXCEPT !.msgState = [w \in Work |-> IF w \in msgs THEN "sent" ELSE @[w]]]

\* a message arrives on newWork
newWork(w) ==
  /\ bpState.pc = "assembly"
  /\ w \notin Range(bpState.arrivals)
  /\ bpState' = addWork(bpState, w)
  /\ UNCHANGED nonBatchVars

\* BatchTimeout elapses with messages in the queue
batchTimeout ==
  /\ bpState.pc = "assembly"
  /\ bpState.assemblyQueue # <<>>
  /\ bpState' = timeoutFlush(bpState)
  /\ UNCHANGED nonBatchVars

\* sealBatch: one attempt at submitting the transaction and persisting the
\* batch
sealBatch(ok) ==
  /\ bpState.pc = "seal"
  /\ IF ok
     THEN /\ bpState.conf.failing # "seal"
          /\ bpState' = [bpState EXCEPT !.pc = "dispatch", !.attempts = 0]
     ELSE /\ mayFail(bpState, "seal")
          /\ bpState' = failedAttempt(bpState)
  /\ UNCHANGED nonBatchVars

\* dispatchBatch: one attempt at calling the dispatch handler
dispatchBatch(ok) ==
  /\ bpState.pc = "dispatch"
  /\ IF ok
     THEN /\ bpState.conf.failing # "dispatch"
          /\ bpState' = [bpState EXCEPT !.pc = "mark", !.attempts = 0,
                                         !.dispatched = Append(@, bpState.flushing)]
     ELSE /\ mayFail(bpState, "dispatch")
          /\ bpState' = failedAttempt(bpState)
  /\ UNCHANGED nonBatchVars

\* one attempt at marking the messages of the dispatched batch
markDispatched(ok) ==
  /\ bpState.pc = "mark"
  /\ IF ok
     THEN bpState' = [markMessagesDispatched(bpState) EXCEPT
                        !.pc = "assembly", !.attempts = 0, !.flushing = NoBatch]
     ELSE /\ mayFail(bpState, "mark")
          /\ bpState' = failedAttempt(bpState)
  /\ UNCHANGED nonBatchVars

\* cancelCtx
cancelCtx ==
  /\ bpState.pc # "done"
  /\ ~bpState.cancelled
  /\ bpState' = [bpState EXCEPT !.cancelled = TRUE]
  /\ UNCHANGED nonBatchVars

\* the processor sees its context cancelled, in the assembly loop or in a
\* retry loop, and closes done
batchDone ==
  /\ \/ bpState.pc = "assembly" /\ bpState.cancelled
     \/ bpState.pc \in {"seal", "dispatch", "mark"} /\ retryCancelled(bpState)
  /\ bpState' = [bpState EXCEPT !.pc = "done"]
  /\ UNCHANGED nonBatchVars

BatchInit ==
  /\ NodeInit
  /\ world = {"BA"}
  /\ bpState \in {BatchStart(conf) : conf \in BatchConfs}
  /\ pinQuery = PinQueryStart(<<>>, 0)
  /\ maskState = MaskStart
  /\ rewindCtx = CtxStart

\* the steps of the processor's own loops
BatchAttempts ==
  \/ batchTimeout
  \/ \E ok \in BOOLEAN : sealBatch(ok)
  \/ \E ok \in BOOLEAN : dispatchBatch(ok)
  \/ \E ok \in BOOLEAN : markDispatched(ok)

BatchNext ==
  \/ \E w \in Work : newWork(w)
  \/ BatchAttempts
  \/ cancelCtx
  \/ batchDone

BatchSpec == BatchInit /\ [][BatchNext]_vars

\* the timer fires and every loop makes its next attempt; a cancelled
\* context is seen
BatchFairness == WF_vars(BatchAttempts) /\ WF_vars(batchDone)

BatchFairSpec == BatchInit /\ [][BatchNext]_vars /\ BatchFairness

(***************************************************************************)
(* extractBatchMessagePin on manifests of all shapes.                      *)
(***************************************************************************)
\* the entries of a manifest and the topics of an entry
MaxEntries == 3
MaxTopics == 2

\* the message ids of the entries, by position
EntryIDs == <<"e1", "e2", "e3", "e4">>

\* the manifests: every sequence of up to MaxEntries entries with 0 to
\* MaxTopics topics each (a topic count is the length of a topics array)
Manifests ==
  UNION {{[j \in 1..n |-> [id |-> EntryIDs[j], topics |-> f[j]]] :
            f \in [1..n -> 0..MaxTopics]} : n \in 0..MaxEntries}

\* the pin indexes asked for: from below zero to beyond the last pin
PinIndexes == -1..(MaxEntries * MaxTopics + 1)

\* processPins asks for the message of a pin
extractCall ==
  /\ ~pinQuery.called
  /\ \E r \in {extractBatchMessagePin(pinQuery.manifest, pinQuery.requiredIndex)} :
       pinQuery' = [pinQuery EXCEPT !.called = TRUE, !.result = r]
  /\ UNCHANGED nonQueryVars

ManifestInit ==
  /\ NodeInit
  /\ world = {"BA"}
  /\ bpState = BatchStart(TestConf)
  /\ pinQuery \in {PinQueryStart(manifest, requiredIndex) :
                     manifest \in Manifests, requiredIndex \in PinIndexes}
  /\ maskState = MaskStart
  /\ rewindCtx = CtxStart

ManifestNext == extractCall

ManifestSpec == ManifestInit /\ [][ManifestNext]_vars

(***************************************************************************)
(* Masking the contexts of outbound private messages.                      *)
(***************************************************************************)
\* the calls of maskContexts of one behaviour
MaxMasks == 4

\* the batches the processor seals: the messages of a batch stay the same
\* over the retries of its seal
MaskBatches == {<<"p1", "p2">>, <<"p3">>}

\* the failures injected into a call: of the at-th UpsertNonceNext or of
\* the at-th UpdateMessage of the call
MaskFails ==
  {[kind |-> "none", at |-> 0]}
    \cup {[kind |-> "nonce", at |-> n] : n \in 1..3}
    \cup {[kind |-> "update", at |-> n] : n \in 1..2}

\* every message is masked again
alreadyMaskedNever(st, m) == FALSE

\* the message already holds pins
alreadyMasked(st, m) == Len(st.pins[m]) > 0

\* the pins of message m from topic number i on: UpsertNonceNext gives the
\* nonce of the context and moves it on, and the pin goes on the message
RECURSIVE maskTopics(_, _, _, _)
maskTopics(st, m, i, fail) ==
  IF i > Len(MaskMsgs[m].topics) THEN st
  ELSE IF fail.kind = "nonce" /\ fail.at = st.upserts + 1
  THEN [st EXCEPT !.err = "pop", !.upserts = @ + 1]
  ELSE LET t == MaskMsgs[m].topics[i]
           nonce == st.nonces[t]
       IN maskTopics([st EXCEPT !.upserts = @ + 1, !.nonces[t] = nonce + 1,
                                !.pins[m] = Append(@, MaskedPin("G", t, "dA", nonce)),
                                !.allocated = Append(@, [msg |-> m, topic |-> i, t |-> t,
                                                         nonce |-> nonce])],
                     m, i + 1, fail)

\* UpdateMessage writing the pins of message m
updateMessagePins(st, m, fail) ==
  IF fail.kind = "update" /\ fail.at = st.updates + 1
  THEN [st EXCEPT !.err = "pop", !.updates = @ + 1]
  ELSE [st EXCEPT !.updates = @ + 1, !.stored[m] = st.pins[m]]

\* the loop of maskContexts from message number k on
RECURSIVE maskContextsLoop(_, _, _, _)
maskContextsLoop(st, msgs, k, fail) ==
  IF k > Len(msgs) \/ st.err # None THEN st
  ELSE IF alreadyMasked(st, msgs[k]) THEN maskContextsLoop(st, msgs, k + 1, fail)
  ELSE Strict(maskTopics(st, msgs[k], 1, fail),
         LAMBDA masked :
           IF masked.err # None THEN masked
           ELSE maskContextsLoop(updateMessagePins(masked, msgs[k], fail), msgs, k + 1, fail))

\* maskContexts on the messages of a batch, called by every attempt at
\* sealing it
maskContexts(msgs, fail) ==
  /\ maskState.calls < MaxMasks
  /\ \E st \in {maskContextsLoop([nonces |-> maskState.nonces, pins |-> maskState.pins,
                                  stored |-> maskState.stored,
                                  allocated |-> maskState.allocated,
                                  err |-> None, upserts |-> 0, updates |-> 0],
                                 msgs, 1, fail)} :
       /\ fail.kind # "none" => st.err # None
       /\ maskState' =
            [nonces |-> st.nonces, pins |-> st.pins, stored |-> st.stored,
             allocated |-> st.allocated, calls |-> maskState.calls + 1,
             last |-> [msgs |-> msgs, err |-> st.err,
                       upserts |-> Len(st.allocated) - Len(maskState.allocated),
                       updates |-> st.updates,
                       pinsBefore |-> maskState.pins, storedBefore |-> maskState.stored,
                       noncesBefore |-> maskState.nonces]]
  /\ UNCHANGED nonMaskVars

MaskInit ==
  /\ NodeInit
  /\ world = {"BA"}
  /\ bpState = BatchStart(TestConf)
  /\ pinQuery = PinQueryStart(<<>>, 0)
  /\ maskState = MaskStart
  /\ rewindCtx = CtxStart

MaskNext == \E msgs \in MaskBatches, fail \in MaskFails : maskContexts(msgs, fail)

MaskSpec == MaskInit /\ [][MaskNext]_vars

(***************************************************************************)
(* The rewind path and the cancellation of the aggregator context: the     *)
(* receive and the send of batchRewindListener taken apart.                *)
(***************************************************************************)
\* the batches whose blobs arrive
BlobBatches == {"BA", "BC", "BG", "BH"}

\* rewindForBlobArrival reaches the send of batch id b on rewindBatches
rewindForBlobArrivalSend(b) ==
  /\ b \notin rewindSenders
  /\ rewindSenders' = rewindSenders \cup {b}
  /\ UNCHANGED <<world, pinned, storeVars, pollerVars, rewindBatches, queuedRewinds,
                 histVars, rewindCtx>>
  /\ UNCHANGED nonCtxVars

\* batchRewindListener's select takes a batch id from rewindBatches
listenerReceive ==
  /\ rewindCtx.listener = "select"
  /\ rewindBatches # <<>>
  /\ rewindCtx' = [rewindCtx EXCEPT !.listener = "send", !.uuid = Head(rewindBatches)]
  /\ rewindBatches' = Tail(rewindBatches)
  /\ UNCHANGED <<world, pinned, storeVars, pollerVars, queuedRewinds, rewindSenders,
                 histVars>>
  /\ UNCHANGED nonCtxVars

\* the send of the batch id on queuedRewinds, then the shoulder tap
listenerSend ==
  /\ rewindCtx.listener = "send"
  /\ Len(queuedRewinds) < PageSize
  /\ queuedRewinds' = Append(queuedRewinds, rewindCtx.uuid)
  /\ rewindCtx' = [rewindCtx EXCEPT !.listener = "select", !.uuid = None]
  /\ UNCHANGED <<world, pinned, storeVars, pollerVars, rewindBatches, rewindSenders,
                 histVars>>
  /\ UNCHANGED nonCtxVars

\* batchRewindListener's select takes ctx.Done and the listener returns
listenerDone ==
  /\ rewindCtx.listener = "select"
  /\ rewindCtx.cancelled
  /\ rewindCtx' = [rewindCtx EXCEPT !.listener = "done"]
  /\ UNCHANGED aggVars
  /\ UNCHANGED nonCtxVars

\* the poller reads a page as long as the context is live
pollWhileLive ==
  /\ ~rewindCtx.cancelled
  /\ readPage

\* the aggregator context is cancelled
cancelAggregator ==
  /\ ~rewindCtx.cancelled
  /\ rewindCtx' = [rewindCtx EXCEPT !.cancelled = TRUE]
  /\ UNCHANGED aggVars
  /\ UNCHANGED nonCtxVars

CancelInit == Init /\ world = {"BA"}

CancelNext ==
  \/ \E b \in BlobBatches : rewindForBlobArrivalSend(b)
  \/ \E b \in BlobBatches : SendRewind(b)
  \/ listenerReceive
  \/ listenerSend
  \/ listenerDone
  \/ pollWhileLive
  \/ cancelAggregator

\* the listener and the blocked senders take every step open to them, and
\* the poller polls until the context is cancelled
CancelFairness ==
  /\ WF_vars(\E b \in BlobBatches : SendRewind(b))
  /\ WF_vars(listenerReceive)
  /\ WF_vars(listenerSend)
  /\ WF_vars(listenerDone)
  /\ WF_vars(pollWhileLive)

CancelSpec == CancelInit /\ [][CancelNext]_vars /\ CancelFairness

TypeOK ==
  /\ world \in Worlds
  /\ pc \in {"poll", "dispatch"}
  /\ committedOffset \in 0..Len(pins)

(***************************************************************************)
(* Properties.                                                             *)
(***************************************************************************)
ConfirmationEvents(m, t) ==
  {i \in 1..Len(events) : /\ events[i].ref = m
                          /\ events[i].topic = t
                          /\ events[i].type \in {"message_confirmed", "message_rejected"}}

\* C1: for every message and every topic of it, at most one message_confirmed
\* or message_rejected event referencing the message exists
ExactlyOnceConfirmation ==
  \A m \in Messages : \A t \in Topics : Cardinality(ConfirmationEvents(m, t)) <= 1

\* the sequence of the pin the batch's sender anchored for topic number i of
\* message m, 0 while that pin is not sequenced
PinOf(m, i) ==
  LET b == BatchOf(m)
      idxs == {x \in 0..Batch[b].contexts - 1 :
                 extractBatchMessagePin(Batch[b].entries, x).msgEntry.id = m}
      first == CHOOSE x \in idxs : \A y \in idxs : x <= y
      S == {q \in 1..Len(pins) : /\ pins[q].batch = b
                                 /\ pins[q].batchHash = Batch[b].hash
                                 /\ pins[q].index = first + i - 1}
  IN IF S = {} THEN 0 ELSE CHOOSE q \in S : TRUE

TopicIndex(m, t) == CHOOSE i \in 1..Len(Msg[m].topics) : Msg[m].topics[i] = t

DeliveredUpToOffset == \A q \in 1..committedOffset : q \in delivered

(***************************************************************************)
(* What the last successful run of the handler wrote.                      *)
(***************************************************************************)
\* the sequences of the events the last run inserted
NewEvents == IF last.err = "none" THEN last.evBefore + 1..Len(events) ELSE {}

\* the pin of the page through which the last run dispatched message m
DispatchPin(m) ==
  LET S == {i \in 1..Len(last.disp) : last.disp[i].msg = m}
  IN IF S = {} THEN 0 ELSE last.disp[CHOOSE i \in S : TRUE].pin

DispatchedPinsOn(key) ==
  {<<m, i>> \in Messages \X (1..2) :
      /\ msgState[m] # "pending"
      /\ Batch[BatchOf(m)].masked
      /\ i <= Len(Msg[m].pins)
      /\ Msg[m].pins[i] # BadPin
      /\ <<Msg[m].pins[i].g, Msg[m].pins[i].t, Msg[m].pins[i].id>> = key}

\* C3: on every next-pin row the nonces are consumed in the order 0, 1, 2, ...
\* without gap or repeat, the row stands at the number of masked pins
\* dispatched on it, and the last page advanced exactly the rows of the pins
\* of the masked messages it dispatched, each from the nonce of that pin
MaskedPinSequencing ==
  /\ \A key \in NPKeys :
       /\ consumed[key] = [i \in 1..nextPins[key] |-> i - 1]
       /\ nextPins[key] = Cardinality(DispatchedPinsOn(key))
  /\ last.err = "none" =>
       /\ \A a \in Range(last.advanced) :
            \E d \in Range(last.disp) : \E i \in 1..Len(Msg[d.msg].pins) :
               /\ pins[d.pin].masked
               /\ Msg[d.msg].pins[i] = MaskedPin(a.key[1], a.key[2], a.key[3], a.nonce)
       /\ \A d \in Range(last.disp) :
            pins[d.pin].masked =>
               \A i \in 1..Len(Msg[d.msg].pins) :
                  Cardinality({x \in 1..Len(last.advanced) :
                     MaskedPin(last.advanced[x].key[1], last.advanced[x].key[2],
                               last.advanced[x].key[3], last.advanced[x].nonce)
                       = Msg[d.msg].pins[i]}) = 1

\* a row consumed two nonces, and a masked message stayed undispatched
WitnessMaskedPinSequencing ==
  /\ \E key \in NPKeys : nextPins[key] = 2 /\ consumed[key] = <<0, 1>>
  /\ \E key \in NPKeys : nextPins[key] = 1

OffsetHeldOnError ==
  last.err # "none" =>
     /\ pc = "dispatch"
     /\ page = last.page
     /\ committedOffset = last.before

\* the pin of the last page owned by no message, by a message that was not
\* handed on, or skipped because its batch was unavailable
InvalidPins ==
  {q \in Range(last.page) :
      \/ pins[q].batch \notin batchStored
      \/ pins[q].batchHash # Batch[pins[q].batch].hash
      \/ extractManifest(pins[q].batch) = None
      \/ extractBatchMessagePin(Batch[pins[q].batch].entries, pins[q].index).msgEntry = NoEntry
      \/ \E u \in Range(last.undisp) :
            /\ u.pin = q
            /\ \/ Msg[u.msg].dataMissing
               \/ pins[q].masked /\ Msg[u.msg].group = None
               \/ pins[q].masked /\ Len(Msg[u.msg].pins) # Len(Msg[u.msg].topics)
               \/ pins[q].masked /\ BadPin \in Range(Msg[u.msg].pins)}

\* C7: when no store call fails (and the definition handler does not ask for a
\* retry) the handler returns no error whatever logically invalid pins the page
\* holds: every pin of the page is visited and the offset is committed to the
\* sequence of the last pin of the page
InvalidPinsNeverFail ==
  (last.page # <<>> /\ last.fail = "none" /\ last.def # "retry") =>
     /\ last.err = "none"
     /\ last.visited = Range(last.page)
     /\ committedOffset = last.page[Len(last.page)]

\* a page that held an invalid pin followed by another pin
WitnessInvalidPinsNeverFail ==
  /\ last.page # <<>> /\ last.fail = "none" /\ last.def # "retry"
  /\ \E q \in InvalidPins : \E q2 \in Range(last.page) : q < q2
  /\ pc = "poll"

\* C8: the message owning a pin is processed only if the hash of the stored
\* batch is the pin's batch hash
ProcessedOnlyIfHashMatches ==
  \A r \in Range(last.processed) :
     pins[r.pin].batchHash = Batch[pins[r.pin].batch].hash

\* C9: a message with an unmasked topic that a page processed and did not
\* dispatch is not overtaken in that page by a later message on that topic
NoOvertakingInPage ==
  last.err = "none" =>
     \A u \in Range(last.undisp) : \A d \in Range(last.disp) :
        ~ ( /\ u.pin < d.pin
            /\ ~pins[u.pin].masked
            /\ ~pins[d.pin].masked
            /\ Range(Msg[u.msg].topics) \cap Range(Msg[d.msg].topics) # {} )

\* the message that owns a pin of a stored batch
OwnerOf(q) == extractBatchMessagePin(Batch[pins[q].batch].entries, pins[q].index).msgEntry.id

\* C10: a page processes a message at most once whatever the number of its
\* pins in the page; a dispatch inserts exactly one event per topic of the
\* message, advances the next pin of each topic of a masked message once, and
\* the offset is committed to the largest pin sequence of the page
OneDispatchPerMessage ==
  (last.page # <<>> /\ last.err = "none") =>
     /\ \A m \in Messages :
          Cardinality({i \in 1..Len(last.processed) : last.processed[i].msg = m}) <= 1
     /\ \A d \in Range(last.disp) :
          /\ \A t \in Range(Msg[d.msg].topics) :
               Cardinality({e \in NewEvents : events[e].ref = d.msg /\ events[e].topic = t}) = 1
          /\ Cardinality({e \in NewEvents : events[e].ref = d.msg}) = Len(Msg[d.msg].topics)
          /\ pins[d.pin].masked =>
               \A i \in 1..Len(Msg[d.msg].topics) :
                  Cardinality({x \in 1..Len(last.advanced) :
                     /\ last.advanced[x].key = <<Msg[d.msg].group, Msg[d.msg].topics[i], Msg[d.msg].author>>
                     /\ last.advanced[x].nonce = Msg[d.msg].pins[i].n}) = 1
     /\ \A q \in Range(last.page) : q <= committedOffset
     /\ committedOffset \in Range(last.page)

\* a page with two pins of one masked message, which it dispatched
WitnessOneDispatchPerMessage ==
  /\ last.page # <<>> /\ last.err = "none"
  /\ \E d \in Range(last.disp) :
       /\ pins[d.pin].masked
       /\ \E q \in Range(last.page) :
            /\ q # d.pin
            /\ pins[q].batch = pins[d.pin].batch
            /\ OwnerOf(q) = d.msg
\* a bootstrap identity claim: its signer is checked by the definition handler
IsIdentityClaim(m) == Msg[m].type = "definition" /\ Msg[m].tag \in IdentityClaimTags

\* C11: a message is dispatched only through a pin whose signer is the
\* message's non-empty key; when the signer resolves to an identity, that
\* identity is the message's non-empty author; when it resolves to none the
\* message is private or an identity claim
DispatchedOnlyIfSignerConsistent ==
  \A d \in Range(last.disp) :
     /\ Msg[d.msg].key # None
     /\ pins[d.pin].signer = Msg[d.msg].key
     /\ ResolveKey(pins[d.pin].signer) # None =>
           /\ Msg[d.msg].author # None
           /\ ResolveKey(pins[d.pin].signer) = Msg[d.msg].author
     /\ ResolveKey(pins[d.pin].signer) = None =>
           Msg[d.msg].type = "private" \/ IsIdentityClaim(d.msg)

\* a message dispatched through a pin whose signer resolves to no identity
WitnessDispatchedOnlyIfSignerConsistent ==
  /\ last.err = "none"
  /\ \E d \in Range(last.disp) :
       /\ ResolveKey(pins[d.pin].signer) = None
       /\ msgState[d.msg] # "pending"

\* C12: a message that is neither private nor an identity claim, signed with
\* its own key, which resolves to no identity, is dispatched as rejected with
\* one message_rejected event per topic when the page reaches it first
UnresolvableSignerRejected ==
  (last.err = "none" /\ last.processed # <<>>) =>
     LET r == last.processed[1]
     IN ( /\ Msg[r.msg].type # "private"
          /\ ~IsIdentityClaim(r.msg)
          /\ ~Msg[r.msg].dataMissing
          /\ ~pins[r.pin].masked
          /\ pins[r.pin].signer = Msg[r.msg].key
          /\ ResolveKey(pins[r.pin].signer) = None )
        => /\ msgState[r.msg] = "rejected"
           /\ \A t \in Range(Msg[r.msg].topics) :
                 \E e \in NewEvents : /\ events[e].ref = r.msg
                                      /\ events[e].topic = t
                                      /\ events[e].type = "message_rejected"
\* a step of processPinsEventsHandler: the only step taken while the poller
\* holds a page that leaves the ledger, the stores of batches, blobs and
\* transfers and the rewind channel alone
HandlerStep ==
  /\ pc = "dispatch"
  /\ UNCHANGED <<pinned, batchStored, blobs, transfers, rewindBatches>>

TransferTypes == {"transfer_broadcast", "transfer_private"}

\* C13: a transfer message that a page reaches first is dispatched iff a token
\* transfer that refers to the message and carries the message's hash is in
\* the store; with no transfer referring to it, it is not dispatched
TransferDispatchedIffMatching ==
  [][(HandlerStep /\ last'.err = "none" /\ last'.processed # <<>>) =>
       LET r == last'.processed[1]
       IN Msg[r.msg].type \in TransferTypes =>
            ( r \in Range(last'.disp) <=>
                \E i \in 1..Len(transfers) :
                   transfers[i].msg = r.msg /\ transfers[i].hashOk )]_vars
\* the masked pin of message a on a next-pin row directly precedes that of b
PrecedesOnRow(a, b) ==
  \E i \in 1..Len(Msg[a].pins) : \E j \in 1..Len(Msg[b].pins) :
     /\ Msg[a].pins[i] # BadPin /\ Msg[b].pins[j] # BadPin
     /\ Msg[a].pins[i].g = Msg[b].pins[j].g
     /\ Msg[a].pins[i].t = Msg[b].pins[j].t
     /\ Msg[a].pins[i].id = Msg[b].pins[j].id
     /\ Msg[a].pins[i].n + 1 = Msg[b].pins[j].n

\* the pairs <<a, b>> of masked messages of one network with a directly before
\* b on a row
MaskedSuccessors ==
  {pr \in Messages \X Messages :
     /\ Batch[BatchOf(pr[1])].masked /\ Batch[BatchOf(pr[2])].masked
     /\ \E w \in Worlds : {BatchOf(pr[1]), BatchOf(pr[2])} \subseteq w
     /\ PrecedesOnRow(pr[1], pr[2])}

\* the pins of b were sequenced before the pin of a although a precedes b on a
\* row; b's batch is stored, a has been confirmed and b has not
OutOfOrderParked(a, b) ==
  /\ PinOf(b, 1) # 0 /\ PinOf(a, 1) # 0 /\ PinOf(b, 1) < PinOf(a, 1)
  /\ BatchOf(b) \in batchStored
  /\ msgState[a] = "confirmed"
  /\ msgState[b] = "pending"

\* C14: a masked message whose pins were sequenced before the pin of the
\* message that precedes it on a next-pin row is eventually confirmed once
\* that message has been confirmed
OutOfOrderMaskedConfirmed ==
  \A pr \in MaskedSuccessors :
     OutOfOrderParked(pr[1], pr[2]) ~> (msgState[pr[2]] = "confirmed")
\* a message that passes every check of processMessage and
\* attemptMessageDispatch once its batch is stored and its topics are free,
\* and shares no topic with another message of its batch
Dispatchable(m) ==
  /\ Msg[m].type = "broadcast"
  /\ ~Batch[BatchOf(m)].masked
  /\ extractManifest(BatchOf(m)) # None
  /\ checkOnchainConsistencyNoKey(Msg[m], [signer |-> Batch[BatchOf(m)].signer])
  /\ Msg[m].key = Batch[BatchOf(m)].signer
  /\ Msg[m].blob = None /\ ~Msg[m].dataMissing /\ Msg[m].dataValid
  /\ \A o \in MsgsOf(BatchOf(m)) \ {m} :
        Range(Msg[o].topics) \cap Range(Msg[m].topics) = {}

DispatchableMessages == {m \in Messages : Dispatchable(m)}

\* the batch of m is stored and its id is on the rewind channel, the pin of m
\* is sequenced, m is pending and no other pending message shares a topic
RewindSentFor(m) ==
  /\ BatchOf(m) \in batchStored
  /\ BatchOf(m) \in Range(rewindBatches) \cup Range(queuedRewinds)
  /\ PinOf(m, 1) # 0
  /\ msgState[m] = "pending"
  /\ \A o \in WorldMessages \ {m} :
        Range(Msg[o].topics) \cap Range(Msg[m].topics) # {} => msgState[o] # "pending"

\* C15: once the batch of a pin is stored and its id has been sent on the
\* rewind channel, the message that owns the pin is eventually confirmed
MissingBatchConfirmedAfterRewind ==
  \A m \in DispatchableMessages : RewindSentFor(m) ~> (msgState[m] = "confirmed")

\* a page read again below the committed offset confirmed the message of a pin
\* that had been passed
WitnessMissingBatchConfirmedAfterRewind ==
  /\ last.err = "none"
  /\ \E d \in Range(last.disp) :
       /\ d.msg \in DispatchableMessages
       /\ d.pin <= last.before
       /\ msgState[d.msg] = "confirmed"
\* the pending messages in the store whose data refers to a blob
WaitingForBlob(blobHash) ==
  {m \in Messages : /\ BatchOf(m) \in batchStored
                    /\ Msg[m].blob = blobHash
                    /\ ~Msg[m].dataMissing
                    /\ msgState[m] = "pending"}

\* C16: when a blob arrives, the batch id of every unconfirmed message whose
\* data refers to the blob is sent on the rewind channel, once per batch
BlobArrivalRewindsAll ==
  [][\A blobHash \in {"b1"} :
        (blobHash \notin blobs /\ blobHash \in blobs') =>
           rewindSenders' = rewindSenders \cup {BatchOf(m) : m \in WaitingForBlob(blobHash)}]_vars

(***************************************************************************)
(* The two phases of processWithBatchState.                                *)
(***************************************************************************)
\* the positions of step x in the steps of the last run
StepsAt(x) == {i \in 1..Len(last.steps) : last.steps[i] = x}

\* position i of the last run lies inside a transactional group
InGroup(i) ==
  Cardinality({j \in 1..(i - 1) : last.steps[j] = "begin"})
    > Cardinality({j \in 1..(i - 1) : last.steps[j] \in {"commit", "rollback"}})

\* positions i and j of the last run lie in the same transactional group
SameGroup(i, j) ==
  /\ InGroup(i)
  /\ InGroup(j)
  /\ \A k \in 1..Len(last.steps) :
       (i < k /\ k < j) => last.steps[k] \notin {"begin", "commit", "rollback"}

\* C17: with no pre-finalize callback registered the finalize closures run
\* in the group of the page callback; with one registered the group of the
\* callback completes first, the pre-finalize callbacks then run outside any
\* group and the finalize closures run in a second group; finalize never
\* runs when the callback or a pre-finalize callback returned an error
TwoPhaseCommitOrder ==
  last.page # <<>> =>
    /\ Cardinality(StepsAt("callback")) = 1
    /\ (~last.pre /\ last.err \in {"none", "fin"}) =>
         /\ StepsAt("prefinalize") = {}
         /\ \E c \in StepsAt("callback") : \E f \in StepsAt("finalize") :
              c < f /\ SameGroup(c, f)
    /\ (last.pre /\ last.err \in {"none", "fin"}) =>
         \E c \in StepsAt("callback") : \E p \in StepsAt("prefinalize") :
         \E f \in StepsAt("finalize") :
           /\ c < p /\ p < f
           /\ InGroup(c) /\ ~InGroup(p) /\ InGroup(f)
           /\ ~SameGroup(c, f)
           /\ \E k \in (c + 1)..(p - 1) : last.steps[k] = "commit"
    /\ last.err \in {"pin", "pre"} => StepsAt("finalize") = {}
    /\ last.err = "pin" => StepsAt("prefinalize") = {}
    /\ \A p \in StepsAt("prefinalize") : ~InGroup(p)
    /\ \A f \in StepsAt("finalize") : InGroup(f)

\* a page whose callback registered a pre-finalize callback was finalized
WitnessTwoPhaseCommitOrder ==
  /\ last.page # <<>>
  /\ last.pre
  /\ last.err = "none"
  /\ Len(last.disp) > 0
  /\ NewEvents # {}

\* C18: the pre-finalize callbacks registered while a page is processed run
\* at most once for that page, the retries of the page after a failure of
\* the finalize group included
PreFinalizeAtMostOnce == last.preRuns <= 1
(***************************************************************************)
(* Operations.                                                             *)
(***************************************************************************)
\* the stored operations of a type
OpsOfType(type) == {i \in 1..Len(operations) : operations[i].type = type}

\* C19: dispatching a sealed batch again creates no second operation: at
\* most one send-batch operation per (node, group, batch), one blob-transfer
\* operation per (node, blob hash) and one pin-batch operation per batch
OneOperationPerInput ==
  /\ \A i, j \in OpsOfType("dataexchange_batch_send") :
       (/\ operations[i].input.node = operations[j].input.node
        /\ operations[i].input.group = operations[j].input.group
        /\ operations[i].input.batch = operations[j].input.batch) => i = j
  /\ \A i, j \in OpsOfType("dataexchange_blob_send") :
       (/\ operations[i].input.node = operations[j].input.node
        /\ operations[i].input.hash = operations[j].input.hash) => i = j
  /\ \A i, j \in OpsOfType("blockchain_pin_batch") :
       operations[i].input.batch = operations[j].input.batch => i = j

\* a pinned batch was dispatched to the end after a dispatch of it that
\* failed, on operations of each type stored by the failed dispatch
WitnessOneOperationPerInput ==
  /\ opLast.kind = "pinned"
  /\ opLast.err = None
  /\ attempts >= 2
  /\ \E r \in Range(opLast.runs) :
       r.reused /\ r.type = "dataexchange_blob_send" /\ r.before.status = "failed"
  /\ \E r \in Range(opLast.runs) : r.reused /\ r.type = "dataexchange_batch_send"
  /\ \E r \in Range(opLast.runs) : ~r.reused /\ r.type = "blockchain_pin_batch"

\* C20: RunOperation resolves the operation to succeeded exactly when the
\* handler returns complete without error; when the handler returns neither
\* it makes no resolve call and leaves the operation as it was; when the
\* handler returns an error it returns that error and resolves the operation
\* to failed with the error message, or to pending with it when
\* RemainPendingOnFailure is requested
RunOperationResolution ==
  \A r \in Range(opLast.runs) :
    /\ (r.resolved.called /\ r.resolved.status = "succeeded")
         <=> (r.complete /\ r.err = None)
    /\ (r.complete /\ r.err = None) =>
         /\ r.ret = None
         /\ r.after.status = "succeeded"
    /\ (~r.complete /\ r.err = None) =>
         /\ ~r.resolved.called
         /\ r.ret = None
         /\ r.after = r.before
    /\ r.err # None =>
         /\ r.ret = r.err
         /\ r.resolved = [called |-> TRUE,
                          status |-> IF r.remain THEN "pending" ELSE "failed",
                          error |-> r.err]
         /\ r.after.status = r.resolved.status
         /\ r.after.error = r.err

\* a stored operation was run with RemainPendingOnFailure and the handler
\* returned an error, while another operation succeeded and another failed
WitnessRunOperationResolution ==
  /\ \E r \in Range(opLast.runs) :
       r.remain /\ r.err # None /\ r.after.status = "pending" /\ r.after.error = r.err
  /\ \E i \in 1..Len(operations) : operations[i].status = "succeeded"
  /\ \E i \in 1..Len(operations) : operations[i].status = "failed"
(***************************************************************************)
(* The rewind the poller takes from rewindOffchainBatches.                 *)
(***************************************************************************)
\* the sequences of the undispatched pins of the batches queued for a rewind
QueuedUndispatched ==
  {q \in 1..Len(pins) : /\ \E i \in 1..Len(queuedRewinds) : queuedRewinds[i] = pins[q].batch
                        /\ ~pins[q].dispatched}

\* C30: a read of the poller drains every queued batch id and starts from
\* s - 1, s being the smallest sequence among the undispatched pins of the
\* queued batches; with no id queued, or no undispatched pin of the queued
\* batches, it starts from the offset the poller holds
RewindToOldestUndispatched ==
  [][(pc = "poll" /\ UNCHANGED <<storeVars, pinned, rewindBatches, rewindSenders>>) =>
       /\ queuedRewinds' = <<>>
       /\ IF QueuedUndispatched # {}
          THEN \E q \in QueuedUndispatched :
                 /\ \A o \in QueuedUndispatched : q <= o
                 /\ pollingOffset' = q - 1
          ELSE pollingOffset' = pollingOffset]_vars

\* the poller holds a page that a rewind made start at or before the
\* committed offset
WitnessRewindToOldestUndispatched ==
  /\ pc = "dispatch"
  /\ Len(page) > 0
  /\ page[1] <= committedOffset
  /\ pollingOffset = page[1] - 1
(***************************************************************************)
(* The order of the operations of a private batch send.                    *)
(***************************************************************************)
\* the nodes of sealed batch b that the local org owns
LocalNodes(b) ==
  {Sealed[b].nodes[i].id : i \in {j \in 1..Len(Sealed[b].nodes) :
                                     Sealed[b].nodes[j].parent = LocalOrg}}

\* the blobs the data of sealed batch b refers to
BlobsOf(b) ==
  {Sealed[b].data[i].blob : i \in {j \in 1..Len(Sealed[b].data) :
                                     Sealed[b].data[j].blob # None}}

\* the positions of the runs of the last dispatch that went to a node
NodeRuns ==
  {i \in 1..Len(opLast.runs) :
     opLast.runs[i].type \in {"dataexchange_blob_send", "dataexchange_batch_send"}}

\* C25: in a send of a private batch no operation goes to a node of the
\* local org; before the batch-send operation to a node every blob of the
\* batch was transferred to that node by an operation of its own, and each
\* of these transfers started without error
BlobsBeforeBatchSend ==
  opLast.kind \in {"pinned", "unpinned"} =>
    /\ \A i \in NodeRuns : opLast.runs[i].after.input.node \notin LocalNodes(opLast.batch)
    /\ \A j \in NodeRuns :
         opLast.runs[j].type = "dataexchange_batch_send" =>
           /\ opLast.runs[j].after.input.batch = opLast.batch
           /\ \A blobHash \in BlobsOf(opLast.batch) :
                \E i \in NodeRuns :
                  /\ i < j
                  /\ opLast.runs[i].type = "dataexchange_blob_send"
                  /\ opLast.runs[i].after.input.node = opLast.runs[j].after.input.node
                  /\ opLast.runs[i].after.input.hash = blobHash
                  /\ opLast.runs[i].id # opLast.runs[j].id
           /\ \A i \in NodeRuns :
                (/\ i < j
                 /\ opLast.runs[i].type = "dataexchange_blob_send"
                 /\ opLast.runs[i].after.input.node = opLast.runs[j].after.input.node)
                  => opLast.runs[i].ret = None

\* an unpinned batch with a blob was sent to both remote nodes of its group
WitnessBlobsBeforeBatchSend ==
  /\ opLast.kind = "unpinned"
  /\ opLast.err = None
  /\ \A n \in {"n2", "n3"} :
       \E j \in NodeRuns : /\ opLast.runs[j].type = "dataexchange_batch_send"
                           /\ opLast.runs[j].after.input.node = n
  /\ \E i \in NodeRuns : opLast.runs[i].type = "dataexchange_blob_send"
(***************************************************************************)
(* RetryOperation.                                                         *)
(***************************************************************************)
\* the ids of the chain of retries that starts at operation id of table ops
RECURSIVE ChainFrom(_, _, _)
ChainFrom(ops, id, n) ==
  IF n = 0 \/ RowOf(ops, id).retry = NoOp THEN {id}
  ELSE {id} \cup ChainFrom(ops, RowOf(ops, id).retry, n - 1)

\* C21: RetryOperation follows the retry links to the latest operation of
\* the chain, inserts a copy of it with a new id and status pending, same
\* type, plugin and input, sets the retry field of the latest operation to
\* the new id and runs the new operation; when the lookup, the insert or the
\* update fails, the error is returned and nothing is run
RetryLinksAndReruns ==
  opLast.kind = "retry" =>
    LET old == opLast.old
        chain == ChainFrom(old, opLast.id, Len(old))
    IN IF opLast.fail # "none"
       THEN /\ opLast.err # None
            /\ opLast.runs = <<>>
            /\ \A i \in 1..Len(old) : operations[i].status = old[i].status
       ELSE \E latest \in chain :
              /\ old[latest].retry = NoOp
              /\ Len(operations) = Len(old) + 1
              /\ Len(opLast.runs) = 1
              /\ LET new == opLast.runs[1].before
                 IN /\ new.id \notin {old[i].id : i \in 1..Len(old)}
                    /\ new.id = operations[Len(operations)].id
                    /\ opLast.runs[1].id = new.id
                    /\ new.status = "pending"
                    /\ new.retry = NoOp
                    /\ new.type = old[latest].type
                    /\ new.plugin = old[latest].plugin
                    /\ new.input = old[latest].input
                    /\ operations[latest] = [old[latest] EXCEPT !.retry = new.id]
              /\ \A i \in 1..Len(old) : i # latest => operations[i] = old[i]

\* an operation already retried was retried again through its first id
WitnessRetryLinksAndReruns ==
  /\ opLast.kind = "retry"
  /\ opLast.fail = "none"
  /\ RowOf(opLast.old, opLast.id).retry # NoOp
  /\ RowOf(opLast.old, opLast.id).status = "failed"
(***************************************************************************)
(* Token transfers.                                                        *)
(***************************************************************************)
\* the confirmation events of the transfer with this connector and protocol id
TransferConfirmations(st, connector, protocolId) ==
  {i \in 1..Len(st.events) : /\ st.events[i].type = "token_transfer_confirmed"
                             /\ st.events[i].ref = <<connector, protocolId>>}

\* C29: a TokensTransferred callback whose (connector, protocol id) matches
\* a persisted transfer upserts nothing, updates no balance and inserts no
\* event; each transfer has at most one token transfer confirmed event
DuplicateTransferSuppressed ==
  /\ tokenState.last.existing =>
       /\ tokenState.transfers = tokenState.last.transfers
       /\ tokenState.balances = tokenState.last.balances
       /\ tokenState.events = tokenState.last.events
       /\ \A i \in 1..Len(tokenState.last.calls) :
            tokenState.last.calls[i] = "GetTokenTransferByProtocolID"
  /\ \A t \in Deliveries :
       /\ Cardinality(TransferConfirmations(tokenState, t.connector, t.protocolId)) <= 1
       /\ Cardinality(GetTokenTransferByProtocolID(tokenState, t.connector,
                                                   t.protocolId)) <= 1

\* a transfer already persisted and confirmed was delivered again
WitnessDuplicateTransferSuppressed ==
  /\ tokenState.last.existing
  /\ tokenState.last.transfer \in Deliveries
  /\ tokenState.last.transfer.pool = "F1"
  /\ TransferConfirmations(tokenState, tokenState.last.transfer.connector,
                           tokenState.last.transfer.protocolId) # {}
(***************************************************************************)
(* Ephemeral subscriptions.                                                *)
(***************************************************************************)
\* the connections an ephemeral subscription has a dispatcher on
ConnsOf(sub) == {c \in ConnIDs : sub \in subState.connections[c].dispatchers}

\* C26: an ephemeral subscription lives on the one connection that created
\* it; ConnnectionClosed by that connection's transport removes the connection
\* and all its dispatchers, a repeated ConnnectionClosed changes nothing, and
\* an ephemeral subscription whose filter does not compile is refused and
\* leaves no dispatcher
EphemeralDiesWithConnection ==
  LET cb == subState.last
  IN /\ \A sub \in EphemeralIDs :
          /\ Cardinality(ConnsOf(sub)) <= 1
          /\ \A c \in ConnIDs : <<c, sub>> \in subState.running => c \in ConnsOf(sub)
     /\ (cb.op = "ConnnectionClosed" /\ cb.connections[cb.conn] # NoConn
           /\ cb.connections[cb.conn].transport = cb.transport) =>
          /\ subState.connections[cb.conn] = NoConn
          /\ \A d \in subState.running : d[1] # cb.conn
     /\ (cb.op = "ConnnectionClosed" /\ cb.connections[cb.conn] = NoConn) =>
          /\ subState.connections = cb.connections
          /\ subState.running = cb.running
     /\ (cb.op = "EphemeralSubscription" /\ cb.err = "FF10171") =>
          /\ subState.running = cb.running
          /\ subState.connections[cb.conn].dispatchers =
               cb.connections[cb.conn].dispatchers
          /\ \A c \in ConnIDs \ {cb.conn} :
               subState.connections[c] = cb.connections[c]

\* a connection that had an ephemeral dispatcher was closed by its transport
WitnessEphemeralDiesWithConnection ==
  /\ subState.last.op = "ConnnectionClosed"
  /\ subState.last.connections[subState.last.conn].transport = subState.last.transport
  /\ subState.last.connections[subState.last.conn].dispatchers \cap EphemeralIDs # {}
(***************************************************************************)
(* The batches of the batch processor.                                     *)
(***************************************************************************)
\* the batches handed over to be sealed so far, in that order
Flushed ==
  IF bpState.flushing # NoBatch /\ bpState.flushing \notin Range(bpState.dispatched)
  THEN Append(bpState.dispatched, bpState.flushing)
  ELSE bpState.dispatched

\* in how many places a submitted message is held: the assembly queue and
\* the batches
Places(w) ==
  Cardinality({i \in 1..Len(bpState.assemblyQueue) : bpState.assemblyQueue[i] = w})
    + Cardinality({<<i, j>> \in (1..Len(Flushed)) \X (1..MaxWork) :
                     j <= Len(Flushed[i].msgs) /\ Flushed[i].msgs[j] = w})

\* the messages of the queue and of every batch are in sequence order
Ascending(q) == \A i \in 1..Len(q) : \A j \in 1..Len(q) : i < j => q[i] < q[j]

\* a batch sealed because the next item took it over BatchMaxBytes does not
\* hold that item, which heads what is sealed next; no batch of several
\* messages is over BatchMaxBytes; nothing is dropped or duplicated
OverflowSealsWithoutItem ==
  /\ \A w \in Range(bpState.arrivals) : Places(w) = 1
  /\ \A w \in Work \ Range(bpState.arrivals) : Places(w) = 0
  /\ \A i \in 1..Len(Flushed) :
       /\ Flushed[i].msgs # <<>>
       /\ Len(Flushed[i].msgs) > 1 =>
            estimateSize(Flushed[i].msgs) <= bpState.conf.BatchMaxBytes
       /\ Flushed[i].trigger = "overflow" =>
            /\ Flushed[i].work \notin Range(Flushed[i].msgs)
            /\ estimateSize(Flushed[i].msgs) + msgEstimateSize
                 > bpState.conf.BatchMaxBytes
            /\ IF i < Len(Flushed)
               THEN Flushed[i].work \in Range(Flushed[i + 1].msgs)
               ELSE Flushed[i].work \in Range(bpState.assemblyQueue)
  /\ Ascending(bpState.assemblyQueue)
  /\ \A i \in 1..Len(Flushed) : Ascending(Flushed[i].msgs)

\* every message of a batch sealed by an overflow has a lower sequence than
\* every message of the batches dispatched after it
DispatchedInSequenceOrder ==
  \A i \in 1..Len(bpState.dispatched) : \A j \in 1..Len(bpState.dispatched) :
     (i < j /\ bpState.dispatched[i].trigger = "overflow") =>
        \A m \in Range(bpState.dispatched[i].msgs) :
           \A n \in Range(bpState.dispatched[j].msgs) : m < n

\* C22: a batch the next message would take over BatchMaxBytes is sealed and
\* dispatched without that message, which opens the next batch; no message
\* is dropped or duplicated and the batches are dispatched in message
\* sequence order
BatchSizeOverflow == OverflowSealsWithoutItem /\ DispatchedInSequenceOrder

\* C22 (amended): as C22, with the batches dispatched in message sequence
\* order when the messages were submitted in sequence order
BatchSizeOverflowInArrivalOrder ==
  /\ OverflowSealsWithoutItem
  /\ Ascending(bpState.arrivals) => DispatchedInSequenceOrder

\* two batches were dispatched, the first sealed by the overflow of the
\* message that is in the second
WitnessBatchSizeOverflowInArrivalOrder ==
  /\ Len(bpState.dispatched) >= 2
  /\ bpState.dispatched[1].trigger = "overflow"
  /\ bpState.dispatched[1].work \in Range(bpState.dispatched[2].msgs)
\* C23: with BatchMaxSize = 1 every submitted message is sealed into a batch
\* of its own as it is taken from newWork: none waits in the assembly queue
\* for BatchTimeout
OneBatchPerMessage ==
  bpState.conf.BatchMaxSize = 1 =>
    /\ bpState.assemblyQueue = <<>>
    /\ Len(Flushed) = Len(bpState.arrivals)
    /\ \A i \in 1..Len(Flushed) :
         /\ Flushed[i].msgs = <<bpState.arrivals[i]>>
         /\ Flushed[i].trigger = "full"
         /\ Flushed[i].work = bpState.arrivals[i]

\* with BatchMaxSize = 1 two messages were dispatched
WitnessOneBatchPerMessage ==
  /\ bpState.conf.BatchMaxSize = 1
  /\ Len(bpState.dispatched) >= 2
\* the processor can reach neither BatchMaxSize nor BatchMaxBytes
Unfilled ==
  /\ MaxWork < bpState.conf.BatchMaxSize
  /\ batchSizeEstimateBase + MaxWork * msgEstimateSize < bpState.conf.BatchMaxBytes

\* the dispatched batches that hold the message
DispatchedWith(w) ==
  {i \in 1..Len(bpState.dispatched) : w \in Range(bpState.dispatched[i].msgs)}

\* C24: in a processor that reaches neither BatchMaxSize nor BatchMaxBytes
\* the messages queued when BatchTimeout elapses are all sealed into one
\* batch, batches are sealed by the timeout only, and every submitted
\* message is eventually dispatched in exactly one batch, unless the
\* processor is cancelled or its seal or dispatch keeps failing
UnfilledBatchOnTimeout ==
  /\ [](Unfilled => /\ \A i \in 1..Len(Flushed) : Flushed[i].trigger = "timeout"
                    /\ \A w \in Work : Cardinality(DispatchedWith(w)) <= 1)
  /\ [][(bpState.pc = "assembly" /\ bpState'.pc = "seal"
           /\ bpState'.flushing.trigger = "timeout") =>
          /\ bpState'.flushing.msgs = bpState.assemblyQueue
          /\ bpState'.assemblyQueue = <<>>]_vars
  /\ \A w \in Work :
       (Unfilled /\ bpState.conf.failing = "none" /\ w \in Range(bpState.arrivals))
         ~> (bpState.cancelled \/ Cardinality(DispatchedWith(w)) = 1)

\* every message was submitted before the timeout and dispatched in the one
\* batch
WitnessUnfilledBatchOnTimeout ==
  /\ Unfilled
  /\ Len(bpState.dispatched) = 1
  /\ Len(bpState.dispatched[1].msgs) = MaxWork
  /\ bpState.dispatched[1].trigger = "timeout"
  /\ ~bpState.cancelled

\* C28: a batch processor whose context is cancelled terminates and signals
\* done, also when its seal or its dispatch handler fails at every attempt
CancelTerminates == bpState.cancelled ~> bpState.pc = "done"

\* a processor whose step kept failing was cancelled inside the retry loop
\* and is done
WitnessCancelTerminates ==
  /\ bpState.conf.failing # "none"
  /\ bpState.cancelled
  /\ bpState.attempts > 0
  /\ bpState.flushing # NoBatch
  /\ bpState.pc = "done"
(***************************************************************************)
(* The lifecycle of a message.                                             *)
(***************************************************************************)
\* the states of a message, in the order of its lifecycle
StateRank ==
  [st \in {"staged", "ready", "sent", "pending", "confirmed", "rejected"} |->
     CASE st = "staged" -> 1
       [] st = "ready" -> 2
       [] st = "sent" -> 3
       [] st = "pending" -> 4
       [] OTHER -> 5]

\* the state of no message moves backwards, and a confirmed or rejected
\* message keeps its state
StateMovesForward ==
  /\ \A w \in Work :
       /\ StateRank[bpState'.msgState[w]] >= StateRank[bpState.msgState[w]]
       /\ bpState.msgState[w] \in {"confirmed", "rejected"} =>
            bpState'.msgState[w] = bpState.msgState[w]
  /\ \A m \in Messages :
       /\ StateRank[msgState'[m]] >= StateRank[msgState[m]]
       /\ msgState[m] \in {"confirmed", "rejected"} => msgState'[m] = msgState[m]

\* the confirmation events the batch processor wrote for the message
AssemblerConfirmations(w) ==
  {i \in 1..Len(bpState.events) : bpState.events[i].ref = w}

RewindSkipsNoPin ==
  [][(pc = "poll" /\ UNCHANGED <<storeVars, pinned, rewindBatches, rewindSenders>>) =>
       \A i \in 1..Len(pins) :
          (pollingOffset < i /\ i <= pollingOffset') => pins[i].dispatched]_vars
(***************************************************************************)
(* The definition handler's action.                                        *)
(***************************************************************************)
\* the last run handed this definition message to the definition handler:
\* its data is there, the pin signer is consistent and its blobs resolved
HandlerCalled(rec) ==
  /\ Msg[rec.msg].type = "definition"
  /\ ~Msg[rec.msg].dataMissing
  /\ checkOnchainConsistency(Msg[rec.msg], pins[rec.pin])
  /\ resolveBlobs(Msg[rec.msg])

\* C32: the action of the definition handler decides the outcome: confirm
\* and reject dispatch the message as confirmed and as rejected, wait leaves
\* it undispatched without error, and retry leaves it undispatched with an
\* error, so that the page is kept and the offset is not committed
DefinitionActionDecides ==
  \A k \in 1..Len(last.processed) :
     LET rec == last.processed[k]
     IN (last.fail = "none" /\ HandlerCalled(rec)) =>
          CASE last.def = "confirm" ->
                 /\ rec \in Range(last.disp)
                 /\ last.err = "none"
                 /\ msgState[rec.msg] = "confirmed"
            [] last.def = "reject" ->
                 /\ rec \in Range(last.disp)
                 /\ last.err = "none"
                 /\ msgState[rec.msg] = "rejected"
            [] last.def = "wait" ->
                 /\ rec \notin Range(last.disp)
                 /\ rec \in Range(last.undisp)
                 /\ last.err = "none"
                 /\ msgState[rec.msg] = "pending"
                 /\ committedOffset = CommittedSequence(last.page)
            [] OTHER ->
                 /\ last.def = "retry"
                 /\ rec \notin Range(last.disp)
                 /\ rec \notin Range(last.undisp)
                 /\ last.err = "pin"
                 /\ msgState[rec.msg] = "pending"
                 /\ committedOffset = last.before
                 /\ pc = "dispatch"
                 /\ page = last.page

\* the handler answered retry for a definition message of the page
WitnessDefinitionActionDecides ==
  /\ last.fail = "none"
  /\ last.def = "retry"
  /\ \E k \in 1..Len(last.processed) : HandlerCalled(last.processed[k])
  /\ last.err = "pin"
(***************************************************************************)
(* The finalize closure of a dispatched message.                           *)
(***************************************************************************)
\* a message is valid when its definition handler confirmed it or its data
\* validated
ValidMessage(m) ==
  CASE Msg[m].type = "definition" -> last.def = "confirm"
    [] Msg[m].type = "groupinit" -> TRUE
    [] Msg[m].hasData -> Msg[m].dataValid
    [] OTHER -> TRUE

\* the events the closure of a dispatched message has to insert
ClosureEvents(m) ==
  [i \in 1..Len(Msg[m].topics) |->
     [type |-> IF ValidMessage(m) THEN "message_confirmed" ELSE "message_rejected",
      ref |-> m,
      topic |-> Msg[m].topics[i],
      correlator |-> IF Msg[m].type = "definition" /\ last.correlator # None
                     THEN last.correlator ELSE Msg[m].cid]]

RECURSIVE ClosuresOf(_, _)
\* the events of the closures of the messages dispatched from the k-th on
ClosuresOf(disp, k) ==
  IF k > Len(disp) THEN <<>>
  ELSE ClosureEvents(disp[k].msg) \o ClosuresOf(disp, k + 1)

\* C33: each message a run dispatched queued one closure, and the finalize
\* inserted, in the order of the dispatches, one event per topic of the
\* message in topic order, of type message_confirmed for a valid message and
\* message_rejected otherwise, referencing the message, with the custom
\* correlator of the definition handler or else the header's correlation id;
\* a rejected message as a confirmed one has its pins marked dispatched and
\* the next-pin row of each of its masked pins advanced
FinalizeClosurePerMessage ==
  last.err = "none" =>
    /\ SubSeq(events, last.evBefore + 1, Len(events)) = ClosuresOf(last.disp, 1)
    /\ \A k \in 1..Len(last.disp) :
         LET m == last.disp[k].msg
         IN /\ msgState[m] = IF ValidMessage(m) THEN "confirmed" ELSE "rejected"
            /\ pins[last.disp[k].pin].dispatched
            /\ Batch[BatchOf(m)].masked =>
                 \A i \in 1..Len(Msg[m].pins) :
                    \E a \in Range(last.advanced) :
                       /\ a.key = <<Msg[m].pins[i].g, Msg[m].pins[i].t, Msg[m].pins[i].id>>
                       /\ a.nonce = Msg[m].pins[i].n

\* a page dispatched a rejected masked message and then the message whose
\* pin is the next on the same row
WitnessFinalizeClosurePerMessage ==
  /\ last.err = "none"
  /\ Len(last.disp) = 2
  /\ last.disp[1].msg = "m26"
  /\ msgState["m26"] = "rejected"
  /\ msgState["m27"] = "confirmed"
(***************************************************************************)
(* The manifest entry of a pin.                                            *)
(***************************************************************************)
RECURSIVE TopicsBefore(_, _)
\* the sum of the topic counts of the entries before the j-th
TopicsBefore(manifest, j) ==
  IF j <= 1 THEN 0 ELSE TopicsBefore(manifest, j - 1) + manifest[j - 1].topics

\* the entries whose range of pin indexes holds i
Owners(manifest, i) ==
  {j \in 1..Len(manifest) :
     /\ TopicsBefore(manifest, j) <= i
     /\ i < TopicsBefore(manifest, j) + manifest[j].topics}

\* C34: extractBatchMessagePin returns the sum of the topic counts of the
\* manifest and, for an index from 0 to below that sum, the one entry whose
\* range holds the index together with the base of its range; it returns no
\* entry for any other index, and never an entry without topics
ExtractOwnsPin ==
  pinQuery.called =>
    LET manifest == pinQuery.manifest
        i == pinQuery.requiredIndex
        r == pinQuery.result
        total == TopicsBefore(manifest, Len(manifest) + 1)
    IN /\ r.totalBatchPins = total
       /\ IF 0 <= i /\ i < total
          THEN /\ Cardinality(Owners(manifest, i)) = 1
               /\ \A j \in Owners(manifest, i) :
                    /\ r.msgEntry = manifest[j]
                    /\ r.msgBaseIndex = TopicsBefore(manifest, j)
                    /\ manifest[j].topics > 0
          ELSE /\ r.msgEntry = NoEntry
               /\ Owners(manifest, i) = {}

\* the pin asked for is owned by an entry that follows an entry without
\* topics
WitnessExtractOwnsPin ==
  /\ pinQuery.called
  /\ Len(pinQuery.manifest) = 3
  /\ pinQuery.manifest[2].topics = 0
  /\ pinQuery.result.msgEntry = pinQuery.manifest[3]
  /\ pinQuery.result.msgBaseIndex = pinQuery.requiredIndex - 1
(***************************************************************************)
(* The pin of a private batch follows its sends.                           *)
(***************************************************************************)
\* the calls of RunOperation of the last dispatch on a pin-batch operation
PinRuns == {p \in 1..Len(opLast.runs) : opLast.runs[p].type = "blockchain_pin_batch"}

\* the nodes of batch b that the local org does not own
RemoteNodes(b) == {n \in Range(Sealed[b].nodes) : n.id \notin LocalNodes(b)}

\* C39: a dispatch of a pinned private batch runs the pin operation last,
\* after every earlier call succeeded and the blobs and the batch were sent
\* to every node of another org, and not at all when a step before it failed;
\* a dispatch of an unpinned batch runs no pin operation; the transport
\* wrapper of a send carries the group exactly for an unpinned batch
PinAfterSends ==
  opLast.kind \in {"pinned", "unpinned"} =>
    /\ \A p \in PinRuns :
         /\ opLast.kind = "pinned"
         /\ p = Len(opLast.runs)
         /\ \A i \in 1..(p - 1) : opLast.runs[i].ret = None
         /\ \A n \in RemoteNodes(opLast.batch) :
              \E j \in 1..(p - 1) :
                /\ opLast.runs[j].type = "dataexchange_batch_send"
                /\ opLast.runs[j].after.input.node = n.id
                /\ \A blobHash \in BlobsOf(opLast.batch) :
                     \E i \in 1..(j - 1) :
                       /\ opLast.runs[i].type = "dataexchange_blob_send"
                       /\ opLast.runs[i].after.input.node = n.id
                       /\ opLast.runs[i].after.input.hash = blobHash
    /\ (opLast.err # None /\ PinRuns # {}) =>
         opLast.runs[Len(opLast.runs)].ret = opLast.err
    /\ (opLast.kind = "pinned" /\ opLast.err = None) => PinRuns # {}
    /\ \A k \in 1..Len(opLast.sends) :
         /\ opLast.sends[k].data.transport.batch = opLast.batch
         /\ (opLast.sends[k].data.transport.group # None) <=> (opLast.kind = "unpinned")

\* a pinned batch went to its remote node and was pinned
WitnessPinAfterSends ==
  /\ opLast.kind = "pinned"
  /\ PinRuns # {}
  /\ Len(opLast.sends) = 1
  /\ opLast.sends[1].data.transport.group = None
  /\ Len(opLast.runs) >= 3
  /\ opLast.err = None
(***************************************************************************)
(* The inputs of a batch-send operation, read back.                        *)
(***************************************************************************)
\* what sendData ran for the operation PrepareOperation was last called on
SentAs == {k \in 1..Len(opLast.sends) : opLast.sends[k].id = opLast.id}

\* C40: for a batch-send operation of a pinned or an unpinned batch,
\* retrieveBatchSendInputs gives back the node id, group hash and batch id
\* recorded in its input, and PrepareOperation rebuilds the send sendData
\* ran: the same node, the same batch, the same transport wrapper
BatchSendInputsRoundTrip ==
  (opLast.kind = "prepare" /\ opLast.fail = "none") =>
    \A k \in SentAs :
      /\ opLast.retrieved.err = None
      /\ opLast.retrieved.nodeID = opLast.input.node
      /\ opLast.retrieved.groupHash = opLast.input.group
      /\ opLast.retrieved.batchID = opLast.input.batch
      /\ opLast.err = None
      /\ opLast.data = opLast.sends[k].data
(***************************************************************************)
(* The pins of an outbound private message are assigned once.              *)
(***************************************************************************)
\* the allocations of a nonce for topic number i of message m
AllocatedFor(m, i) ==
  {a \in 1..Len(maskState.allocated) :
     maskState.allocated[a].msg = m /\ maskState.allocated[a].topic = i}

\* the allocations of a nonce of context (G, t)
AllocatedOn(t) ==
  {a \in 1..Len(maskState.allocated) : maskState.allocated[a].t = t}

\* the messages of the last call that held pins before it
MaskedBefore ==
  {m \in Range(maskState.last.msgs) : Len(maskState.last.pinsBefore[m]) > 0}

MessageTransfer ==
  /\ tokenState.last.calls # <<>>
  /\ "message" \in DOMAIN tokenState.last.transfer
  /\ ~tokenState.last.existing

\* the positions of a store call in the calls of the last callback
CallsOf(name) ==
  {i \in 1..Len(tokenState.last.calls) : tokenState.last.calls[i] = name}

\* the state a callback for a transfer with a message leaves
AfterMessageTransfer ==
  /\ MessageTransfer =>
       LET cb == tokenState.last
           m == cb.transfer.message
       IN /\ (m \in DOMAIN TokenMsgs /\ cb.messages[m] = "staged") =>
               /\ tokenState.messages[m] = "ready"
               /\ cb.batchID = None
               /\ CallsOf("ReplaceMessage") # {}
          /\ (m \in DOMAIN TokenMsgs /\ cb.messages[m] # "staged") =>
               /\ tokenState.messages = cb.messages
               /\ cb.batchID = TokenMsgs[m].batch
               /\ rewindBatches = Append(cb.rewindBatches, TokenMsgs[m].batch)
          /\ m \notin DOMAIN TokenMsgs =>
               /\ tokenState.messages = cb.messages
               /\ cb.batchID = None
          /\ cb.batchID = None => rewindBatches = cb.rewindBatches
          /\ tokenState.events =
               cb.events \o <<[type |-> "blockchain_event_received",
                               ref |-> <<cb.transfer.connector, cb.transfer.protocolId>>],
                              [type |-> "token_transfer_confirmed",
                               ref |-> <<cb.transfer.connector, cb.transfer.protocolId>>]>>
          /\ cb.calls[Len(cb.calls)] = "InsertEvent"
          /\ \A i \in CallsOf("InsertEvent") :
               \E j \in CallsOf("GetMessageByID") : j < i
          /\ Cardinality(CallsOf("InsertEvent")) <= 2
  /\ \A t \in MsgDeliveries :
       Cardinality(TransferConfirmations(tokenState, t.connector, t.protocolId)) <= 1

FairBatches == UNION FairWorlds

CancelUnwindsRewinds ==
  rewindCtx.cancelled ~> (rewindCtx.listener = "done" /\ rewindSenders = {})
====
